---------------------------- MODULE Spec2Model ----------------------------
(***************************************************************************)
(* Model of the routing, templating, composition and body-validation core  *)
(* of natural-api (src/src/prompts/*.py, src/src/main.py).                 *)
(*                                                                         *)
(* Text is modelled at character level: a Python str is a sequence of      *)
(* one-character strings, so that the regular expressions of router.py and *)
(* variables.py are modelled by what they match, not by what they are      *)
(* meant to match.                                                         *)
(***************************************************************************)
EXTENDS Integers, Sequences, FiniteSets, TLC

VARIABLES
    pc,            \* position of the component under analysis
    path_kind,     \* what prompts_dir is on disk: "missing", "file" or "dir"
    dir,           \* prompts directory: set of prompt files on disk
    prompts,       \* DynamicRouter.prompts
    req,           \* request handed to match_route: [method, path]
    match,         \* RouteMatch | None returned by match_route
    pattern,       \* _extract_path_params argument: route pattern
    path,          \* _extract_path_params argument: request path
    path_params,   \* _extract_path_params result
    pieces,        \* how the template was written (placeholders and text)
    route_params,  \* substitute_variables argument
    body_params,   \* substitute_variables argument
    result,        \* substitute_variables result
    agentsFile,    \* <project>/AGENTS.md on disk
    prompt_body,   \* compose_prompt argument / PromptMetadata.raw_content
    composed,      \* compose_prompt result
    agentPrompt,   \* text handed to provider.execute by PromptExecutor
    schemas,       \* list[BodyFieldSchema] of the matched prompt
    body,          \* decoded request body (dict)
    validated,     \* validate_request_body result, first component
    errors,        \* validate_request_body result, second component
    body_schema,   \* PromptMetadata.body_schema: the 'body' key of the frontmatter
    route_param_names, \* validate_body_schema argument route_params
    http_method,   \* validate_body_schema argument method
    raised,        \* exception raised by the schema compilation, or "none"
    codex_in_path, \* shutil.which("codex") is not None
    call,          \* arguments of CodexProvider.execute: prompt, model, dry_run
    proc,          \* the codex process: state and exit code
    pipe,          \* lines the process has written that no reader has read yet
    stdout_lines,  \* collector of the stdout reader thread
    stderr_lines,  \* collector of the stderr reader thread
    captured_at_kill, \* both collectors as they were when proc.kill() was called
    provider_result,  \* AIProviderResult returned by CodexProvider.execute
    spawned,       \* number of codex processes started (subprocess.Popen)
    request,       \* what dynamic_prompt_handler reads from the request
    found,         \* RouteMatch returned to the handler: its prompt's fields
    dry_run,       \* the handler's effective dry-run flag
    response,      \* status and body the client receives
    determined,    \* status and body set with log_ctx.set_response before write_log
    log_failures,  \* number of write_log calls that raised
    storage,       \* directories that exist on disk, as paths from the working directory
    setup,         \* per request: where its setup_user_workspace call stands
    routers,       \* the DynamicRouter instances that exist: their prompts
    inflight       \* per request: where its route resolution stands

vars == <<pc, path_kind, dir, prompts, req, match, pattern, path, path_params, pieces,
          route_params, body_params, result, agentsFile, prompt_body,
          composed, agentPrompt, schemas, body, validated, errors,
          body_schema, route_param_names, http_method, raised,
          codex_in_path, call, proc, pipe, stdout_lines, stderr_lines,
          captured_at_kill, provider_result, spawned,
          request, found, dry_run, response, determined, log_failures,
          storage, setup, routers, inflight>>

routerVars   == <<path_kind, dir, prompts, req, match>>
unifyVars    == <<pattern, path, path_params>>
substVars    == <<pieces, route_params, body_params, result>>
composeVars  == <<agentsFile, prompt_body, composed, agentPrompt>>
validateVars == <<schemas, body, validated, errors>>
schemaVars   == <<body_schema, route_param_names, http_method, raised>>
providerVars == <<codex_in_path, call, proc, pipe, stdout_lines, stderr_lines,
                  captured_at_kill, provider_result, spawned>>
handlerVars  == <<request, found, dry_run, response, determined, log_failures>>
concurrentVars == <<storage, setup, routers, inflight>>
laterVars    == <<schemaVars, providerVars, handlerVars, concurrentVars>>

-----------------------------------------------------------------------------
(* Bounds                                                                  *)

MaxPathLen == 4
MaxPatternPieces == 2
MaxUnifyPathLen == 5
MaxTemplatePieces == 2
MaxPreamblePieces == 2

-----------------------------------------------------------------------------
(* Python values and strings                                               *)

\* Python None where a str is expected (a str is a sequence of 1-char strings)
None == <<"None">>

Range(f) == {f[i] : i \in DOMAIN f}

Max(S) == CHOOSE x \in S : \A y \in S : y <= x
Min(S) == CHOOSE x \in S : \A y \in S : x <= y

\* all sequences over S of length 0..n
RECURSIVE SeqsUpTo(_, _)
SeqsUpTo(S, n) ==
    IF n = 0 THEN {<<>>}
    ELSE LET shorter == SeqsUpTo(S, n - 1)
         IN  shorter \cup {Append(s, c) : s \in {t \in shorter : Len(t) = n - 1}, c \in S}

\* concatenation of a sequence of strings
RECURSIVE Concat(_)
Concat(ss) == IF ss = <<>> THEN <<>> ELSE Head(ss) \o Concat(Tail(ss))

\* s[i:] starts with t   (str.startswith at offset i, 1-based)
StartsWithAt(s, i, t) ==
    /\ i + Len(t) - 1 <= Len(s)
    /\ \A k \in 1..Len(t) : s[i + k - 1] = t[k]

\* t in s
Contains(s, t) == \E i \in 1..(Len(s) + 1) : StartsWithAt(s, i, t)

\* code points of the characters that occur in file names
Ord(c) ==
    CASE c = "-" -> 45
      [] c = "." -> 46
      [] c = "/" -> 47
      [] c = "a" -> 97
      [] c = "b" -> 98
      [] c = "d" -> 100
      [] c = "m" -> 109

\* s < t for Python str (code-point lexicographic order)
StrLess(s, t) ==
    \E k \in 1..(Len(s) + 1) :
        /\ k <= Len(t)
        /\ \A i \in 1..(k - 1) : s[i] = t[i]
        /\ (k = Len(s) + 1 \/ Ord(s[k]) < Ord(t[k]))

\* [a-zA-Z_] and [a-zA-Z0-9_]
IdentStart == {"a","b","c","d","e","f","g","h","i","j","k","l","m","n","o","p",
               "q","r","s","t","u","v","w","x","y","z",
               "A","B","C","D","E","F","G","H","I","J","K","L","M","N","O","P",
               "Q","R","S","T","U","V","W","X","Y","Z","_"}
IdentChar == IdentStart \cup {"0","1","2","3","4","5","6","7","8","9"}

\* end index of the longest identifier [a-zA-Z_][a-zA-Z0-9_]* starting at
\* s[i]; 0 when s[i] does not start one
IdentEnd(s, i) ==
    IF i > Len(s) \/ s[i] \notin IdentStart THEN 0
    ELSE Max({j \in i..Len(s) : \A k \in (i + 1)..j : s[k] \in IdentChar})

\* str.upper() on the HTTP method vocabulary
upper(m) ==
    CASE m = "get"  -> "GET"
      [] m = "post" -> "POST"
      [] m = "Put"  -> "PUT"
      [] OTHER      -> m

-----------------------------------------------------------------------------
(* prompts/loader.py                                                       *)

Absent == "absent"     \* front-matter key not present

\* names of the prompt documents (Path.stem), and the text of the routes
\* they may declare
Stems == {<<"a">>, <<"a", "-", "b">>, <<"b">>}
RouteTexts == {<<"/", "a">>, <<"/", "{", "x", "}">>, <<"/", "a", "/", "{", "x", "}">>}
FileMethods == {Absent, "post"}

\* the 'body' key: not present, a map, or some other value
BodyKinds == {Absent, "dict", "scalar"}

\* a prompt document on disk: file name stem, whether frontmatter.load reads
\* it without raising, and its front-matter
PromptFiles == [stem : Stems, parses : BOOLEAN, method : FileMethods,
                route : RouteTexts \cup {None}, body : BodyKinds]

\* Path.name of a prompt document
FileName(f) == f.stem \o <<".", "m", "d">>

\* the orders in which glob("*.md") may list the files of a directory
Listings(d) ==
    {l \in [1..Cardinality(d) -> d] : \A i, j \in DOMAIN l : l[i] = l[j] => i = j}

\* the files ordered by PromptMetadata.filename (the stem) instead
SortedByStem(listing) ==
    CHOOSE s \in Listings(Range(listing)) :
        \A i, j \in DOMAIN s : i < j => StrLess(s[i].stem, s[j].stem)

\* sorted(prompts_dir.glob("*.md")): paths of one directory compare by name
sorted(listing) ==
    CHOOSE s \in Listings(Range(listing)) :
        \A i, j \in DOMAIN s : i < j => StrLess(FileName(s[i]), FileName(s[j]))

\* the PromptMetadata built from one document
PromptMetadata(f) ==
    [filename |-> f.stem,
     method   |-> upper(IF f.method = Absent THEN "GET" ELSE f.method),
     route    |-> f.route,
     body_schema |-> IF f.body = "dict" THEN "dict" ELSE "None"]

Parses(f) == f.parses

\* a load that one unreadable document aborts
LoadAllOrNothing(kind, listing) ==
    IF kind # "dir" \/ \E i \in DOMAIN listing : ~listing[i].parses THEN <<>>
    ELSE [i \in DOMAIN sorted(listing) |-> PromptMetadata(sorted(listing)[i])]

\* load_prompts: nothing for a path that is missing or no directory; else
\* the documents in sorted order, each inside try/except: one that raises
\* is skipped
load_prompts(kind, listing) ==
    IF kind # "dir" THEN <<>>
    ELSE LET md_files == SelectSeq(sorted(listing), Parses)
         IN  [i \in DOMAIN md_files |-> PromptMetadata(md_files[i])]

-----------------------------------------------------------------------------
(* prompts/router.py                                                       *)

NoPrompt == [filename |-> None, method |-> "", route |-> None, body_schema |-> "None"]
NoMatch  == [match_type |-> "none", prompt |-> NoPrompt, path_params |-> <<>>]
RouteMatch(p, t, params) == [match_type |-> t, prompt |-> p, path_params |-> params]

NoParams == [ok |-> FALSE, params |-> <<>>]     \* _extract_path_params -> None

\* the pattern text is placed in the regex as it is: '.' stays a wildcard
RegexAtom(c) ==
    IF c = "." THEN [kind |-> "any", ch |-> c, name |-> <<>>]
    ELSE [kind |-> "lit", ch |-> c, name |-> <<>>]

\* the regex built from a route pattern: {name} -> (?P<name>[^/]+),
\* {name:path} -> (?P<name>.+), everything else copied
RECURSIVE RouteRegexFrom(_, _)
RouteRegexFrom(p, i) ==
    IF i > Len(p) THEN <<>>
    ELSE LET e == IF p[i] = "{" THEN IdentEnd(p, i + 1) ELSE 0
         IN  IF e > 0 /\ StartsWithAt(p, e + 1, <<"}">>)
             THEN <<[kind |-> "seg", ch |-> "", name |-> SubSeq(p, i + 1, e)]>>
                  \o RouteRegexFrom(p, e + 2)
             ELSE IF e > 0 /\ StartsWithAt(p, e + 1, <<":", "p", "a", "t", "h", "}">>)
             THEN <<[kind |-> "rest", ch |-> "", name |-> SubSeq(p, i + 1, e)]>>
                  \o RouteRegexFrom(p, e + 7)
             ELSE <<RegexAtom(p[i])>> \o RouteRegexFrom(p, i + 1)

RouteRegex(p) == RouteRegexFrom(p, 1)

\* re.error: a group name defined twice
RegexError(re) ==
    \E i, j \in DOMAIN re :
        i # j /\ re[i].kind \in {"seg", "rest"} /\ re[j].kind \in {"seg", "rest"}
              /\ re[i].name = re[j].name

\* characters a group may consume: [^/] for {name}, . for {name:path}
GroupChar(kind, c) == IF kind = "seg" THEN c # "/" ELSE c # "\n"

\* re.match('^' + regex + '$', s) from regex element i and position j of s:
\* backtracking, every group greedy ('$' also matches before a final
\* newline, which is outside the modelled alphabet)
RECURSIVE MatchFrom(_, _, _, _)
MatchFrom(re, s, i, j) ==
    IF i > Len(re) THEN (IF j > Len(s) THEN [ok |-> TRUE, params |-> <<>>] ELSE NoParams)
    ELSE IF re[i].kind = "lit"
    THEN (IF j <= Len(s) /\ s[j] = re[i].ch THEN MatchFrom(re, s, i + 1, j + 1) ELSE NoParams)
    ELSE IF re[i].kind = "any"
    THEN (IF j <= Len(s) /\ s[j] # "\n" THEN MatchFrom(re, s, i + 1, j + 1) ELSE NoParams)
    ELSE LET ks == {k \in 1..(Len(s) - j + 1) :
                        /\ \A n \in j..(j + k - 1) : GroupChar(re[i].kind, s[n])
                        /\ MatchFrom(re, s, i + 1, j + k).ok}
         IN  IF ks = {} THEN NoParams
             ELSE LET k == Max(ks)
                  IN  [ok |-> TRUE,
                       params |-> (re[i].name :> SubSeq(s, j, j + k - 1))
                                  @@ MatchFrom(re, s, i + 1, j + k).params]

extract_path_params(pat, p) ==
    LET regex_pattern == RouteRegex(pat)
    IN  IF RegexError(regex_pattern) THEN NoParams
        ELSE MatchFrom(regex_pattern, p, 1, 1)

match_explicit(ps, method, p) ==
    LET hits == {i \in DOMAIN ps :
                    /\ ps[i].route # None
                    /\ ps[i].method = method
                    /\ extract_path_params(ps[i].route, p).ok}
    IN  IF hits = {} THEN NoMatch
        ELSE LET i == Min(hits)
             IN  RouteMatch(ps[i], "explicit", extract_path_params(ps[i].route, p).params)

\* the fallback pass without the GET test
FallbackAnyMethod(ps, method, p) ==
    IF ~StartsWithAt(p, 1, <<"/">>) THEN NoMatch
    ELSE LET filename == SubSeq(p, 2, Len(p))
             hits == {i \in DOMAIN ps : ps[i].filename = filename}
         IN  IF "/" \in Range(filename) \/ hits = {} THEN NoMatch
             ELSE RouteMatch(ps[Min(hits)], "fallback", <<>>)

match_fallback(ps, method, p) ==
    IF method # "GET" THEN NoMatch
    ELSE IF ~StartsWithAt(p, 1, <<"/">>) THEN NoMatch
    ELSE LET filename == SubSeq(p, 2, Len(p))
             hits == {i \in DOMAIN ps : ps[i].filename = filename}
         IN  IF "/" \in Range(filename) \/ hits = {} THEN NoMatch
             ELSE RouteMatch(ps[Min(hits)], "fallback", <<>>)

\* the two passes in the other order
FallbackFirst(ps, method, p) ==
    LET m == upper(method)
        fallback == match_fallback(ps, m, p)
    IN  IF fallback # NoMatch THEN fallback ELSE match_explicit(ps, m, p)

match_route(ps, method, p) ==
    LET m == upper(method)
        explicit == match_explicit(ps, m, p)
    IN  IF explicit # NoMatch THEN explicit ELSE match_fallback(ps, m, p)

-----------------------------------------------------------------------------
(* Router: scan the directory, then resolve requests (main.py 356-360)     *)

PathChars == {"/", "a", "b"}
Paths == {p \in SeqsUpTo(PathChars, MaxPathLen) : p # <<>> /\ p[1] = "/"}
RequestMethods == {"get", "POST"}

\* directories: at most one document per file name
NoFile == <<"no file", None>>
Dirs ==
    {{[stem |-> s, parses |-> TRUE, method |-> c[s][1], route |-> c[s][2], body |-> Absent] :
          s \in {t \in Stems : c[t] # NoFile}} :
        c \in [Stems -> (FileMethods \X (RouteTexts \cup {None})) \cup {NoFile}]}

NoRequest == [method |-> "", path |-> <<>>]

IdleRouter  == path_kind = "dir" /\ dir = {} /\ prompts = <<>> /\ req = NoRequest /\ match = NoMatch
IdleUnify   == pattern = <<>> /\ path = <<>> /\ path_params = NoParams
IdleSubst   == pieces = <<>> /\ route_params = <<>> /\ body_params = <<>> /\ result = <<>>
IdleCompose == agentsFile = None /\ prompt_body = <<>> /\ composed = <<>> /\ agentPrompt = None
IdleValidate == schemas = <<>> /\ body = <<>> /\ validated = <<>> /\ errors = <<>>
IdleSchema  == body_schema = <<>> /\ route_param_names = <<>> /\ http_method = "" /\ raised = "none"
IdleProvider ==
    /\ codex_in_path = FALSE /\ call = <<>> /\ proc = <<>> /\ pipe = <<>>
    /\ stdout_lines = <<>> /\ stderr_lines = <<>> /\ captured_at_kill = <<>>
    /\ provider_result = <<>> /\ spawned = 0
IdleHandler ==
    /\ request = <<>> /\ found = <<>> /\ dry_run = FALSE /\ response = <<>>
    /\ determined = <<>> /\ log_failures = 0
IdleConcurrent ==
    storage = {} /\ setup = <<>> /\ routers = <<>> /\ inflight = <<>>
IdleLater   == IdleSchema /\ IdleProvider /\ IdleHandler /\ IdleConcurrent

InitRouter ==
    /\ pc = "start"
    /\ path_kind = "dir"
    /\ dir \in Dirs
    /\ prompts = <<>>
    /\ req = NoRequest
    /\ match = NoMatch
    /\ IdleUnify /\ IdleSubst /\ IdleCompose /\ IdleValidate
    /\ IdleLater

\* router.load_prompts()
LoadPrompts ==
    /\ pc = "start"
    /\ \E listing \in Listings(dir) : prompts' = load_prompts(path_kind, listing)
    /\ pc' = "loaded"
    /\ UNCHANGED <<laterVars, path_kind, dir, req, match, unifyVars, substVars, composeVars, validateVars>>

\* router.match_route(method, full_path)
MatchRoute ==
    /\ pc = "loaded"
    /\ \E m \in RequestMethods, p \in Paths :
          /\ req' = [method |-> m, path |-> p]
          /\ match' = match_route(prompts, m, p)
    /\ pc' = "matched"
    /\ UNCHANGED <<laterVars, path_kind, dir, prompts, unifyVars, substVars, composeVars, validateVars>>

NextRouter == LoadPrompts \/ MatchRoute

SpecRouter == InitRouter /\ [][NextRouter]_vars

-----------------------------------------------------------------------------
(* Claims about the router                                                 *)

\* the prompts of the loaded set that the explicit pass accepts for req
ExplicitCandidates ==
    {i \in DOMAIN prompts :
        /\ prompts[i].route # None
        /\ prompts[i].method = upper(req.method)
        /\ extract_path_params(prompts[i].route, req.path).ok}

\* the path without its leading slash
Segment(p) == SubSeq(p, 2, Len(p))

\* C1: whenever some prompt with a declared route and the request's method
\* unifies with the path, match_route returns a match of type 'explicit',
\* also when another prompt's filename equals the path
C1_ExplicitFirst ==
    (pc = "matched" /\ ExplicitCandidates # {}) => match.match_type = "explicit"

\* an explicit match was returned although a prompt named like the path exists
C1_Witness ==
    /\ pc = "matched"
    /\ match.match_type = "explicit"
    /\ upper(req.method) = "GET"
    /\ \E i \in DOMAIN prompts :
          prompts[i].filename = Segment(req.path) /\ prompts[i] # match.prompt

\* C2: the loaded prompts are the documents of the directory in ascending
\* file-name order whatever the listing order was, and an explicit match is
\* a prompt with a route and the request's (upper-cased) method that unifies
\* with the path and whose file name sorts before every other such prompt
C2_LoadOrderFirstMatch ==
    /\ pc # "start" =>
          /\ Len(prompts) = Cardinality(dir)
          /\ Range(prompts) = {PromptMetadata(f) : f \in dir}
          /\ \A i, j \in DOMAIN prompts :
                i < j => StrLess(prompts[i].filename \o <<".", "m", "d">>,
                                 prompts[j].filename \o <<".", "m", "d">>)
    /\ (pc = "matched" /\ match.match_type = "explicit") =>
          /\ match.prompt.route # None
          /\ match.prompt.method = upper(req.method)
          /\ extract_path_params(match.prompt.route, req.path).ok
          /\ \A f \in dir :
                (/\ f.route # None
                 /\ PromptMetadata(f).method = upper(req.method)
                 /\ extract_path_params(f.route, req.path).ok
                 /\ f.stem # match.prompt.filename)
                => StrLess(match.prompt.filename \o <<".", "m", "d">>, FileName(f))

\* two prompts unify with the path, and the winner "a-b.md" sorts first as a
\* file name although its stem sorts after "a"
C2_Witness ==
    /\ pc = "matched"
    /\ match.match_type = "explicit"
    /\ match.prompt.filename = <<"a", "-", "b">>
    /\ \E i \in ExplicitCandidates : prompts[i].filename = <<"a">>

\* C3: a fallback match is returned only for GET and a single-segment path;
\* its prompt is the one named like the segment and its parameter map is empty
C3_FallbackGetSingleSegment ==
    (pc = "matched" /\ match.match_type = "fallback") =>
        /\ upper(req.method) = "GET"
        /\ req.path[1] = "/"
        /\ "/" \notin Range(Segment(req.path))
        /\ match.prompt.filename = Segment(req.path)
        /\ match.path_params = <<>>

\* a fallback match was returned
C3_Witness ==
    /\ pc = "matched"
    /\ match.match_type = "fallback"
    /\ match.prompt.filename = <<"a">>

-----------------------------------------------------------------------------
(* Pattern unification on its own: _extract_path_params(pattern, path)     *)

\* route patterns are written as a sequence of slash-led segments
PatternPieces ==
    {<<"/">>, <<"/", "a">>, <<"/", "b">>, <<"/", ".">>,
     <<"/", "{", "x", "}">>, <<"/", "{", "y", "}">>,
     <<"/", "{", "x", ":", "p", "a", "t", "h", "}">>}
Patterns == {Concat(ps) : ps \in SeqsUpTo(PatternPieces, MaxPatternPieces) \ {<<>>}}
UnifyPaths == {p \in SeqsUpTo(PathChars, MaxUnifyPathLen) : p # <<>> /\ p[1] = "/"}

InitUnify ==
    /\ pc = "start"
    /\ pattern \in Patterns
    /\ path \in UnifyPaths
    /\ path_params = NoParams
    /\ IdleRouter /\ IdleSubst /\ IdleCompose /\ IdleValidate
    /\ IdleLater

ExtractPathParams ==
    /\ pc = "start"
    /\ path_params' = extract_path_params(pattern, path)
    /\ pc' = "done"
    /\ UNCHANGED <<laterVars, pattern, path, routerVars, substVars, composeVars, validateVars>>

NextUnify == ExtractPathParams

SpecUnify == InitUnify /\ [][NextUnify]_vars

\* s.split("/")
RECURSIVE Split(_)
Split(s) ==
    IF "/" \notin Range(s) THEN <<s>>
    ELSE LET k == Min({i \in DOMAIN s : s[i] = "/"})
         IN  <<SubSeq(s, 1, k - 1)>> \o Split(SubSeq(s, k + 1, Len(s)))

\* "/".join(segs)
RECURSIVE Join(_)
Join(segs) ==
    IF Len(segs) = 0 THEN <<>>
    ELSE IF Len(segs) = 1 THEN segs[1]
    ELSE segs[1] \o <<"/">> \o Join(Tail(segs))

\* the segments of a slash-led text
Segments(s) == Tail(Split(s))

\* how the pattern rules read one pattern segment
IsSingle(seg) ==
    Len(seg) >= 3 /\ seg[1] = "{" /\ seg[Len(seg)] = "}"
                  /\ IdentEnd(seg, 2) = Len(seg) - 1
IsGreedy(seg) ==
    Len(seg) >= 8 /\ seg[1] = "{" /\ IdentEnd(seg, 2) = Len(seg) - 6
                  /\ StartsWithAt(seg, Len(seg) - 5, <<":", "p", "a", "t", "h", "}">>)
IsLiteral(seg) == "{" \notin Range(seg) /\ "}" \notin Range(seg)
PlaceholderName(seg) ==
    IF IsSingle(seg) THEN SubSeq(seg, 2, Len(seg) - 1) ELSE SubSeq(seg, 2, Len(seg) - 6)

\* a pattern the pattern rules cover: literal and single-segment placeholder
\* segments, a greedy placeholder only as the last segment, distinct names
WellFormedPattern(pat) ==
    LET segs == Segments(pat)
    IN  /\ pat[1] = "/"
        /\ \A i \in DOMAIN segs :
              \/ IsLiteral(segs[i])
              \/ IsSingle(segs[i])
              \/ IsGreedy(segs[i]) /\ i = Len(segs)
        /\ \A i, j \in DOMAIN segs :
              (~IsLiteral(segs[i]) /\ ~IsLiteral(segs[j]) /\ i # j)
              => PlaceholderName(segs[i]) # PlaceholderName(segs[j])

\* segment-wise unification as the pattern rules describe it
RECURSIVE UnifySegments(_, _)
UnifySegments(psegs, segs) ==
    IF psegs = <<>> THEN [ok |-> segs = <<>>, params |-> <<>>]
    ELSE IF segs = <<>> THEN NoParams
    ELSE IF IsGreedy(psegs[1])
    THEN (IF Join(segs) = <<>> THEN NoParams
          ELSE [ok |-> TRUE, params |-> PlaceholderName(psegs[1]) :> Join(segs)])
    ELSE LET rest == UnifySegments(Tail(psegs), Tail(segs))
         IN  IF ~rest.ok THEN NoParams
             ELSE IF IsSingle(psegs[1])
             THEN (IF segs[1] = <<>> THEN NoParams
                   ELSE [ok |-> TRUE,
                         params |-> (PlaceholderName(psegs[1]) :> segs[1]) @@ rest.params])
             ELSE (IF segs[1] = psegs[1] THEN rest ELSE NoParams)

\* C4: for a well-formed pattern, _extract_path_params succeeds exactly when
\* the whole path unifies segment by segment with the whole pattern (literal
\* segments equal, {name} bound to one non-empty segment, a final
\* {name:path} bound to the non-empty remainder), and then returns exactly
\* the placeholders bound to the path text
C4_UnifyExactly ==
    (pc = "done" /\ WellFormedPattern(pattern)) =>
        path_params = UnifySegments(Segments(pattern), Segments(path))

\* the same statement for the patterns whose literal segments contain no
\* regular-expression metacharacter
C4_UnifyPlainLiterals ==
    (pc = "done" /\ WellFormedPattern(pattern) /\ "." \notin Range(pattern)) =>
        path_params = UnifySegments(Segments(pattern), Segments(path))

-----------------------------------------------------------------------------
(* prompts/variables.py                                                    *)

\* Python values that may be stored in body_params
PyStrV(cs)  == [t |-> "str",   s |-> cs,   n |-> 0, b |-> FALSE]
PyFloat(k)  == [t |-> "float", s |-> <<>>, n |-> k, b |-> FALSE]
PyInt(k)    == [t |-> "int",   s |-> <<>>, n |-> k, b |-> FALSE]
PyBool(v)   == [t |-> "bool",  s |-> <<>>, n |-> 0, b |-> v]
PyNone      == [t |-> "none",  s |-> <<>>, n |-> 0, b |-> FALSE]

DigitChar(d) == <<"0", "1", "2", "3", "4", "5", "6", "7", "8", "9">>[d + 1]

\* str(k) for an int k
RECURSIVE IntText(_)
IntText(k) ==
    IF k < 0 THEN <<"-">> \o IntText(-k)
    ELSE IF k < 10 THEN <<DigitChar(k)>>
    ELSE IntText(k \div 10) \o <<DigitChar(k % 10)>>

\* str(v): floats of the model are whole numbers and print as "k.0"
str(v) ==
    CASE v.t = "str"   -> v.s
      [] v.t = "float" -> IntText(v.n) \o <<".", "0">>
      [] v.t = "int"   -> IntText(v.n)
      [] v.t = "bool"  -> IF v.b THEN <<"T", "r", "u", "e">> ELSE <<"F", "a", "l", "s", "e">>
      [] v.t = "none"  -> <<"N", "o", "n", "e">>

NoVariable == [ok |-> FALSE, end |-> 0, namespace |-> "", var_name |-> <<>>, default_value |-> None]

\* the rest of VARIABLE_PATTERN once the optional namespace is decided:
\* ([a-zA-Z_][a-zA-Z0-9_]*)(?::([^}]*))?\}  with the name starting at s[n0]
VariableTail(s, n0, ns) ==
    LET e == IdentEnd(s, n0)
        closers == {c \in (e + 2)..Len(s) : s[c] = "}"}
    IN  IF e = 0 THEN NoVariable
        ELSE IF StartsWithAt(s, e + 1, <<":">>) /\ closers # {}
        THEN [ok |-> TRUE, end |-> Min(closers), namespace |-> ns,
              var_name |-> SubSeq(s, n0, e),
              default_value |-> SubSeq(s, e + 2, Min(closers) - 1)]
        ELSE IF StartsWithAt(s, e + 1, <<"}">>)
        THEN [ok |-> TRUE, end |-> e + 1, namespace |-> ns,
              var_name |-> SubSeq(s, n0, e), default_value |-> None]
        ELSE NoVariable

\* VARIABLE_PATTERN matched at position i of s
MatchVariable(s, i) ==
    IF ~StartsWithAt(s, i, <<"$", "{">>) THEN NoVariable
    ELSE LET namespaced ==
                 IF StartsWithAt(s, i + 2, <<"r", "o", "u", "t", "e", ".">>)
                 THEN VariableTail(s, i + 8, "route")
                 ELSE IF StartsWithAt(s, i + 2, <<"b", "o", "d", "y", ".">>)
                 THEN VariableTail(s, i + 7, "body")
                 ELSE NoVariable
         IN  IF namespaced.ok THEN namespaced ELSE VariableTail(s, i + 2, "")

\* the replacement when both maps are searched whatever the namespace
ReplaceAnyNamespace(m, rp, bp) ==
    IF m.var_name \in DOMAIN rp THEN rp[m.var_name]
    ELSE IF m.var_name \in DOMAIN bp THEN str(bp[m.var_name])
    ELSE IF m.default_value # None THEN m.default_value
    ELSE <<>>

\* a placeholder with neither value nor default left in the text
KeepUnresolved(m, rp, bp) ==
    IF m.namespace = "route" /\ m.var_name \in DOMAIN rp THEN rp[m.var_name]
    ELSE IF m.namespace = "body" /\ m.var_name \in DOMAIN bp THEN str(bp[m.var_name])
    ELSE IF m.namespace = "" /\ m.var_name \in DOMAIN rp THEN rp[m.var_name]
    ELSE IF m.namespace = "" /\ m.var_name \in DOMAIN bp THEN str(bp[m.var_name])
    ELSE IF m.default_value # None THEN m.default_value
    ELSE <<"$", "{">> \o m.var_name \o <<"}">>

replace_match(m, rp, bp) ==
    IF m.namespace = "route" /\ m.var_name \in DOMAIN rp THEN rp[m.var_name]
    ELSE IF m.namespace = "body" /\ m.var_name \in DOMAIN bp THEN str(bp[m.var_name])
    ELSE IF m.namespace = "" /\ m.var_name \in DOMAIN rp THEN rp[m.var_name]
    ELSE IF m.namespace = "" /\ m.var_name \in DOMAIN bp THEN str(bp[m.var_name])
    ELSE IF m.default_value # None THEN m.default_value
    ELSE <<>>

\* VARIABLE_PATTERN.sub(replace_match, template) from position i: matches are
\* found left to right in the template, never in the replacements
RECURSIVE SubFrom(_, _, _, _)
SubFrom(s, i, rp, bp) ==
    IF i > Len(s) THEN <<>>
    ELSE LET m == MatchVariable(s, i)
         IN  IF m.ok THEN replace_match(m, rp, bp) \o SubFrom(s, m.end + 1, rp, bp)
             ELSE <<s[i]>> \o SubFrom(s, i + 1, rp, bp)

\* substitution that scans its own output once more
SubstituteRescanning(template, rp, bp) == SubFrom(SubFrom(template, 1, rp, bp), 1, rp, bp)

substitute_variables(template, rp, bp) == SubFrom(template, 1, rp, bp)

-----------------------------------------------------------------------------
(* Substitution on its own: substitute_variables(template, route, body)    *)

TextPiece(cs) == [kind |-> "text", ns |-> "", name |-> <<>>, default |-> None, text |-> cs]
VarPiece(ns, name, default) ==
    [kind |-> "var", ns |-> ns, name |-> name, default |-> default, text |-> <<>>]

\* the text of a piece of a template
Render(piece) ==
    IF piece.kind = "text" THEN piece.text
    ELSE <<"$", "{">>
         \o (CASE piece.ns = "route" -> <<"r", "o", "u", "t", "e", ".">>
               [] piece.ns = "body"  -> <<"b", "o", "d", "y", ".">>
               [] OTHER              -> <<>>)
         \o piece.name
         \o (IF piece.default = None THEN <<>> ELSE <<":">> \o piece.default)
         \o <<"}">>

Template(ps) == Concat([i \in DOMAIN ps |-> Render(ps[i])])

VarNames == {<<"x">>}
TemplatePieces ==
    {TextPiece(<<"a">>), TextPiece(<<"$">>)}
    \cup {VarPiece(ns, name, d) : ns \in {"route", "body", ""}, name \in VarNames,
                                   d \in {None, <<>>, <<"d">>}}

\* route values are path text; one of them carries placeholder syntax
RouteValues == {<<>>, <<"r">>, <<"$", "{", "b", "o", "d", "y", ".", "x", "}">>}
BodyValues  == {PyStrV(<<"w">>), PyStrV(<<"$", "{", "x", ":", "q", "}">>), PyNone, PyBool(TRUE)}

\* dicts with keys among ks and values among vs
Dicts(ks, vs) == UNION {[d -> vs] : d \in SUBSET ks}

InitSubst ==
    /\ pc = "start"
    /\ pieces \in SeqsUpTo(TemplatePieces, MaxTemplatePieces)
    /\ route_params \in Dicts(VarNames, RouteValues)
    /\ body_params \in Dicts(VarNames, BodyValues)
    /\ result = <<>>
    /\ IdleRouter /\ IdleUnify /\ IdleCompose /\ IdleValidate
    /\ IdleLater

Substitute ==
    /\ pc = "start"
    /\ result' = substitute_variables(Template(pieces), route_params, body_params)
    /\ pc' = "done"
    /\ UNCHANGED <<laterVars, pieces, route_params, body_params, routerVars, unifyVars,
                   composeVars, validateVars>>

NextSubst == Substitute

SpecSubst == InitSubst /\ [][NextSubst]_vars

\* what the three-step order gives for one piece of the template
Resolved(piece) ==
    IF piece.kind = "text" THEN piece.text
    ELSE LET inRoute == piece.ns \in {"route", ""} /\ piece.name \in DOMAIN route_params
             inBody  == piece.ns \in {"body", ""} /\ piece.name \in DOMAIN body_params
         IN  IF inRoute THEN route_params[piece.name]
             ELSE IF inBody THEN str(body_params[piece.name])
             ELSE IF piece.default # None THEN piece.default
             ELSE <<>>

\* number of placeholders VARIABLE_PATTERN finds in s from position i
RECURSIVE CountVariables(_, _)
CountVariables(s, i) ==
    IF i > Len(s) THEN 0
    ELSE IF MatchVariable(s, i).ok THEN 1 + CountVariables(s, MatchVariable(s, i).end + 1)
    ELSE CountVariables(s, i + 1)

\* C5: every placeholder is replaced by the value of its name in the
\* applicable map (route_params for ${route.x}, body_params for ${body.x},
\* route_params then body_params for ${x}), else by its default literal,
\* else by the empty string; the rest of the template is copied
C5_ResolutionOrder ==
    pc = "done" => result = Concat([i \in DOMAIN pieces |-> Resolved(pieces[i])])

\* a ${route.x} placeholder was resolved while only body_params holds x
C5_Witness ==
    /\ pc = "done"
    /\ <<"x">> \notin DOMAIN route_params
    /\ <<"x">> \in DOMAIN body_params
    /\ \E i \in DOMAIN pieces : pieces[i].kind = "var" /\ pieces[i].ns = "route"
    /\ \E i \in DOMAIN pieces : pieces[i].kind = "var" /\ pieces[i].ns = ""

\* C6: a value inserted for a placeholder that itself contains placeholder
\* syntax appears literally in the output
C6_SinglePass ==
    pc = "done" =>
        \A i \in DOMAIN pieces :
            (pieces[i].kind = "var" /\ CountVariables(Resolved(pieces[i]), 1) > 0)
            => /\ Contains(result, Resolved(pieces[i]))
               /\ CountVariables(result, 1) >= 1

\* the route value ${body.x} was inserted while body_params holds x
C6_Witness ==
    /\ pc = "done"
    /\ <<"x">> \in DOMAIN body_params
    /\ \E i \in DOMAIN pieces :
          /\ pieces[i].kind = "var"
          /\ pieces[i].ns = "route"
          /\ Resolved(pieces[i]) = <<"$", "{", "b", "o", "d", "y", ".", "x", "}">>
    /\ Contains(result, <<"$", "{", "b", "o", "d", "y", ".", "x", "}">>)

-----------------------------------------------------------------------------
(* prompts/composer.py                                                     *)

\* AGENTS.md exists but read_text raises
Unreadable == <<"Unreadable">>

\* _read_agents_file: the content, or None when the file is missing or
\* cannot be read
read_agents_file(file) == IF file = None \/ file = Unreadable THEN None ELSE file

placeholder == <<"{", "{", "P", "R", "O", "M", "P", "T", "}", "}">>

\* str.replace that stops after the first occurrence
ReplaceFirst(s, i, old, new) ==
    IF ~Contains(s, old) THEN s
    ELSE LET k == Min({j \in 1..Len(s) : StartsWithAt(s, j, old)})
         IN  SubSeq(s, 1, k - 1) \o new \o SubSeq(s, k + Len(old), Len(s))

\* s.replace(old, new) from position i: occurrences left to right, the
\* inserted text is not searched
RECURSIVE replace(_, _, _, _)
replace(s, i, old, new) ==
    IF i > Len(s) THEN <<>>
    ELSE IF StartsWithAt(s, i, old) THEN new \o replace(s, i + Len(old), old, new)
    ELSE <<s[i]>> \o replace(s, i + 1, old, new)

compose_prompt(body_text, file) ==
    LET agents == read_agents_file(file)
    IN  IF agents = None \/ agents = <<>> THEN body_text
        ELSE IF Contains(agents, placeholder) THEN replace(agents, 1, placeholder, body_text)
        ELSE agents \o <<"\n", "\n">> \o body_text

-----------------------------------------------------------------------------
(* Composition on its own: compose_prompt(prompt_body, project)            *)

\* AGENTS.md is written as a sequence of these pieces
PreamblePieces == {<<"P">>, <<"{">>, <<"$", "{", "x", "}">>, placeholder}
PromptBodies == {<<>>, <<"b">>, placeholder, <<"$", "{", "x", "}">>}

InitCompose ==
    /\ pc = "start"
    /\ pieces \in SeqsUpTo(PreamblePieces, MaxPreamblePieces)
    /\ agentsFile \in {None, Unreadable, Concat(pieces)}
    /\ prompt_body \in PromptBodies
    /\ composed = <<>>
    /\ agentPrompt = None
    /\ route_params = <<>> /\ body_params = <<>> /\ result = <<>>
    /\ IdleRouter /\ IdleUnify /\ IdleValidate
    /\ IdleLater

ComposePrompt ==
    /\ pc = "start"
    /\ composed' = compose_prompt(prompt_body, agentsFile)
    /\ pc' = "done"
    /\ UNCHANGED <<laterVars, agentsFile, prompt_body, agentPrompt, routerVars, unifyVars,
                   substVars, validateVars>>

NextCompose == ComposePrompt

SpecCompose == InitCompose /\ [][NextCompose]_vars

\* the project has a preamble: AGENTS.md exists and can be read
HasPreamble == agentsFile # None /\ agentsFile # Unreadable

\* the preamble with each placeholder piece replaced by the prompt body
Inserted == Concat([i \in DOMAIN pieces |->
                       IF pieces[i] = placeholder THEN prompt_body ELSE pieces[i]])

-----------------------------------------------------------------------------
(* prompts/executor.py: PromptExecutor.execute                             *)

\* keyword parameters of PromptExecutor.execute besides prompt
ExecuteKeywords == {"route_params", "body_params", "dry_run"}

\* the text PromptExecutor.execute hands to provider.execute
processed_prompt(raw_content, rp, bp) == substitute_variables(raw_content, rp, bp)

ExecPreambles == {None, <<"P">>, <<"P", "=">> \o placeholder, <<"$", "{", "x", "}">>}
ExecBodies == {<<"b">>, <<"$", "{", "x", "}">>,
               <<"$", "{", "b", "o", "d", "y", ".", "x", ":", "d", "}">>}

InitExec ==
    /\ pc = "start"
    /\ agentsFile \in ExecPreambles
    /\ prompt_body \in ExecBodies
    /\ route_params \in Dicts(VarNames, RouteValues)
    /\ body_params \in Dicts(VarNames, BodyValues)
    /\ composed = <<>>
    /\ agentPrompt = None
    /\ pieces = <<>> /\ result = <<>>
    /\ IdleRouter /\ IdleUnify /\ IdleValidate
    /\ IdleLater

\* executor.execute(prompt, route_params=..., body_params=..., dry_run=...)
ExecutorExecute ==
    /\ pc = "start"
    /\ agentPrompt' = processed_prompt(prompt_body, route_params, body_params)
    /\ pc' = "executed"
    /\ UNCHANGED <<laterVars, agentsFile, prompt_body, composed, routerVars, unifyVars,
                   substVars, validateVars>>

\* the call made by dynamic_prompt_handler adds project_id=project_id, a
\* keyword execute() does not have: the call raises TypeError before the
\* body of execute runs, and the handler answers 500
HandlerExecute ==
    /\ pc = "start"
    /\ pc' = IF {"route_params", "body_params", "dry_run", "project_id"} \subseteq ExecuteKeywords
             THEN "executed" ELSE "error 500"
    /\ agentPrompt' = IF {"route_params", "body_params", "dry_run", "project_id"} \subseteq ExecuteKeywords
                      THEN processed_prompt(prompt_body, route_params, body_params)
                      ELSE agentPrompt
    /\ UNCHANGED <<laterVars, agentsFile, prompt_body, composed, routerVars, unifyVars,
                   substVars, validateVars>>

NextExec == ExecutorExecute \/ HandlerExecute

SpecExec == InitExec /\ [][NextExec]_vars

\* C8: the text handed to the agent is
\* substitute(compose(prompt body, project preamble), route, body)
C8_ComposeThenSubstitute ==
    pc = "executed" =>
        agentPrompt = substitute_variables(compose_prompt(prompt_body, agentsFile),
                                           route_params, body_params)

-----------------------------------------------------------------------------
(* prompts/body_validator.py                                               *)

\* an enum as declared in the prompt file: not declared, a list, or a scalar
NoEnum == [t |-> "none", items |-> <<>>]
EnumList(items) == [t |-> "list", items |-> items]
EnumScalar == [t |-> "str", items |-> <<>>]

\* BodyFieldSchema: name, type, required, default, and the constraints, each
\* None (PyNone, NoEnum) when not declared
BodyFieldSchema(name, type, required, default) ==
    [name |-> name, type |-> type, required |-> required, default |-> default,
     min_length |-> PyNone, max_length |-> PyNone, pattern |-> PyNone,
     enum |-> NoEnum, min |-> PyNone, max |-> PyNone, max_decimals |-> PyNone]

NoneResult == [none |-> TRUE, v |-> <<>>]
Some(v) == [none |-> FALSE, v |-> v]

\* the default pydantic is given for a field, read by truthiness
DefaultIfTruthy(schema) ==
    LET d == schema.default
        truthy == \/ d.t = "str" /\ d.s # <<>>
                  \/ d.t \in {"int", "float"} /\ d.n # 0
                  \/ d.t = "bool" /\ d.b
    IN  IF truthy THEN [kind |-> "default", value |-> d, optional |-> FALSE]
        ELSE IF ~schema.required THEN [kind |-> "default", value |-> PyNone, optional |-> TRUE]
        ELSE [kind |-> "required", value |-> PyNone, optional |-> FALSE]

\* build_pydantic_model, "Handle default and required": the declared
\* default; else None with the type made optional; else the required marker
default_value(schema) ==
    IF schema.default # PyNone
    THEN [kind |-> "default", value |-> schema.default, optional |-> FALSE]
    ELSE IF ~schema.required
    THEN [kind |-> "default", value |-> PyNone, optional |-> TRUE]
    ELSE [kind |-> "required", value |-> PyNone, optional |-> FALSE]

Accepted(v) == [ok |-> TRUE, value |-> v, type |-> ""]
Rejected(type) == [ok |-> FALSE, value |-> PyNone, type |-> type]

\* number constraints taken as exclusive bounds
ExclusiveBounds(schema, x) ==
    IF schema.max # PyNone /\ x.n >= schema.max.n THEN Rejected("less_than")
    ELSE IF schema.min # PyNone /\ x.n <= schema.min.n THEN Rejected("greater_than")
    ELSE Accepted(x)

\* build_pydantic_model, number constraints: ge = min and le = max, each when
\* declared; pydantic checks le before ge and reports the first that fails
NumberConstraints(schema, x) ==
    IF schema.max # PyNone /\ x.n > schema.max.n THEN Rejected("less_than_equal")
    ELSE IF schema.min # PyNone /\ x.n < schema.min.n THEN Rejected("greater_than_equal")
    ELSE Accepted(x)

\* build_pydantic_model, string constraints: min_length and max_length, each
\* when declared (the schemas drawn here declare no pattern and no enum)
StringConstraints(schema, x) ==
    IF schema.min_length # PyNone /\ Len(x.s) < schema.min_length.n THEN Rejected("string_too_short")
    ELSE IF schema.max_length # PyNone /\ Len(x.s) > schema.max_length.n THEN Rejected("string_too_long")
    ELSE Accepted(x)

\* pydantic's (lax) validation of one supplied value against the field type
\* str, float or bool, optional or not, and then against its constraints
Coerce(schema, v) ==
    IF v = PyNone
    THEN (IF default_value(schema).optional THEN Accepted(PyNone)
          ELSE Rejected(CASE schema.type = "string" -> "string_type"
                          [] schema.type = "number" -> "float_type"
                          [] schema.type = "boolean" -> "bool_type"))
    ELSE IF schema.type = "string"
    THEN (IF v.t = "str" THEN StringConstraints(schema, v) ELSE Rejected("string_type"))
    ELSE IF schema.type = "number"
    THEN (CASE v.t \in {"int", "float"} -> NumberConstraints(schema, PyFloat(v.n))
            [] v.t = "bool" -> NumberConstraints(schema, PyFloat(IF v.b THEN 1 ELSE 0))
            [] v.t = "str"  -> IF v.s # <<>> /\ \A i \in DOMAIN v.s : v.s[i] \in {"0", "1", "2", "3", "4", "5", "6", "7", "8", "9"}
                               THEN NumberConstraints(schema, PyFloat(CHOOSE k \in 0..99 : IntText(k) = v.s))
                               ELSE Rejected("float_parsing"))
    ELSE (CASE v.t = "bool" -> Accepted(v)
            [] v.t \in {"int", "float"} -> IF v.n \in {0, 1} THEN Accepted(PyBool(v.n = 1))
                                           ELSE Rejected("bool_parsing")
            [] v.t = "str" -> Rejected("bool_parsing"))

\* the outcome pydantic reaches for one declared field
FieldOutcome(schema, b) ==
    IF schema.name \in DOMAIN b THEN Coerce(schema, b[schema.name])
    ELSE IF default_value(schema).kind = "default" THEN Accepted(default_value(schema).value)
    ELSE Rejected("missing")

\* one entry of format_validation_errors
FormattedError(name, type, b) ==
    [field |-> <<"b", "o", "d", "y", ".">> \o name,
     type |-> type,
     received |-> IF name \in DOMAIN b /\ type # "missing" THEN b[name] ELSE PyNone]

\* errors of the declared fields, in declaration order
RECURSIVE FieldErrors(_, _)
FieldErrors(ss, b) ==
    IF ss = <<>> THEN <<>>
    ELSE (IF FieldOutcome(ss[1], b).ok THEN <<>>
          ELSE <<FormattedError(ss[1].name, FieldOutcome(ss[1], b).type, b)>>)
         \o FieldErrors(Tail(ss), b)

\* keys of the body that are not declared: the model is created without a
\* config, so pydantic's default extra='ignore' applies and they raise nothing
ExtraErrors(ss, b) == <<>>

\* validate_request_body(body, build_pydantic_model(schemas))
validate_request_body(b, ss) ==
    LET errs == FieldErrors(ss, b) \o ExtraErrors(ss, b)
    IN  IF errs = <<>>
        THEN [validated |-> Some([n \in {ss[i].name : i \in DOMAIN ss} |->
                                     LET i == CHOOSE j \in DOMAIN ss : ss[j].name = n
                                     IN  FieldOutcome(ss[i], b).value]),
              errors |-> NoneResult]
        ELSE [validated |-> NoneResult, errors |-> Some(errs)]

-----------------------------------------------------------------------------
(* Validation on its own: validate_request_body(body, model)               *)

FieldNames == <<(<<"f">>), (<<"g">>)>>
UndeclaredNames == {<<"z">>}
FieldTypes == {"string", "number", "boolean"}

\* a declared default is a value of the field's type
TypedDefault(type) ==
    CASE type = "string"  -> PyStrV(<<>>)
      [] type = "number"  -> PyInt(0)
      [] type = "boolean" -> PyBool(FALSE)

FieldSchemas(name) ==
    UNION {{BodyFieldSchema(name, t, r, d) : r \in BOOLEAN, d \in {PyNone, TypedDefault(t)}} :
              t \in FieldTypes}

\* compiled schemas: the fields f and g, each declared or not, in file order
\* (the handler validates only when the schema is not empty)
SchemaLists ==
    {<<a>> : a \in FieldSchemas(FieldNames[1])}
    \cup {<<c>> : c \in FieldSchemas(FieldNames[2])}
    \cup {<<a, c>> : a \in FieldSchemas(FieldNames[1]), c \in FieldSchemas(FieldNames[2])}

JsonValues == {PyStrV(<<"s">>), PyInt(5), PyBool(TRUE), PyNone}
RequestBodies == Dicts(Range(FieldNames) \cup UndeclaredNames, JsonValues)

InitValidate ==
    /\ pc = "start"
    /\ schemas \in SchemaLists
    /\ body \in RequestBodies
    /\ validated = NoneResult
    /\ errors = NoneResult
    /\ IdleRouter /\ IdleUnify /\ IdleSubst /\ IdleCompose
    /\ IdleLater

ValidateRequestBody ==
    /\ pc = "start"
    /\ validated' = validate_request_body(body, schemas).validated
    /\ errors' = validate_request_body(body, schemas).errors
    /\ pc' = "done"
    /\ UNCHANGED <<laterVars, schemas, body, routerVars, unifyVars, substVars, composeVars>>

NextValidate == ValidateRequestBody

SpecValidate == InitValidate /\ [][NextValidate]_vars

DeclaredNames == {schemas[i].name : i \in DOMAIN schemas}

HasError(name, type) ==
    /\ ~errors.none
    /\ \E i \in DOMAIN errors.v :
          /\ errors.v[i].field = <<"b", "o", "d", "y", ".">> \o name
          /\ errors.v[i].type = type

\* C9: a request body with a key that the schema does not declare yields no
\* normalized fields and an error entry for body.<key> (unexpected field)
C9_UnexpectedFieldRejected ==
    pc = "done" =>
        \A k \in DOMAIN body \ DeclaredNames :
            validated.none /\ HasError(k, "extra_forbidden")

\* C10: for a declared field the body omits, the normalized map holds the
\* declared default, or None when there is no default and the field is not
\* required; when there is no default and the field is required, validation
\* fails with a missing-field error for body.<name> and no normalized map
C10_OmittedField ==
    pc = "done" =>
        \A i \in DOMAIN schemas :
            schemas[i].name \notin DOMAIN body =>
                IF schemas[i].default # PyNone
                THEN ~validated.none => validated.v[schemas[i].name] = schemas[i].default
                ELSE IF ~schemas[i].required
                THEN ~validated.none => validated.v[schemas[i].name] = PyNone
                ELSE validated.none /\ HasError(schemas[i].name, "missing")

\* a body was normalized that omits one field with a default and one
\* optional field without default
C10_Witness ==
    /\ pc = "done"
    /\ ~validated.none
    /\ DOMAIN body \cap DeclaredNames = {}
    /\ \E i, j \in DOMAIN schemas :
          /\ schemas[i].default = PyBool(FALSE)
          /\ validated.v[schemas[i].name] = PyBool(FALSE)
          /\ schemas[j].default = PyNone
          /\ validated.v[schemas[j].name] = PyNone

-----------------------------------------------------------------------------
(* Validation of a number field that declares min and max                  *)

MaxRange == 3

\* a number field f with min and max, alone or next to a string field g
RangedField ==
    {[BodyFieldSchema(FieldNames[1], "number", r, PyNone) EXCEPT !.min = PyInt(lo), !.max = PyInt(hi)] :
        r \in BOOLEAN, lo \in 1..MaxRange, hi \in 1..MaxRange}
PlainStringField == {BodyFieldSchema(FieldNames[2], "string", r, PyNone) : r \in BOOLEAN}
RangeSchemaLists ==
    {<<a>> : a \in RangedField}
    \cup {<<a, c>> : a \in RangedField, c \in PlainStringField}
    \cup {<<c, a>> : a \in RangedField, c \in PlainStringField}

RangeValues == {PyInt(k) : k \in 0..(MaxRange + 1)} \cup {PyStrV(<<"2">>), PyStrV(<<"s">>), PyNone}

InitRange ==
    /\ pc = "start"
    /\ schemas \in RangeSchemaLists
    /\ body \in Dicts(Range(FieldNames), RangeValues)
    /\ validated = NoneResult
    /\ errors = NoneResult
    /\ IdleRouter /\ IdleUnify /\ IdleSubst /\ IdleCompose
    /\ IdleLater

SpecRange == InitRange /\ [][NextValidate]_vars

\* the error entries that name body.<name>
ErrorsFor(name) ==
    IF errors.none THEN {}
    ELSE {i \in DOMAIN errors.v : errors.v[i].field = <<"b", "o", "d", "y", ".">> \o name}

IsNumeric(v) == v.t \in {"int", "float"}

\* a field without constraints that the body supplies with a value of its
\* type, or leaves out while it is not required
Faultless(schema, b) ==
    IF schema.name \in DOMAIN b
    THEN schema.type = "string" /\ b[schema.name].t = "str"
    ELSE ~schema.required

\* C11: a number field with min and max accepts a numeric value v exactly
\* when min <= v <= max, both bounds included; a body whose only fault is one
\* out-of-range value yields no normalized map and exactly one error, for
\* body.<name>, with the submitted value as received
C11_InclusiveRange ==
    pc = "done" =>
        \A i \in DOMAIN schemas :
            LET sc == schemas[i] IN
            (sc.type = "number" /\ sc.name \in DOMAIN body /\ IsNumeric(body[sc.name])) =>
                LET v == body[sc.name].n
                    inRange == sc.min.n <= v /\ v <= sc.max.n
                IN  /\ (ErrorsFor(sc.name) = {}) <=> inRange
                    /\ (~inRange /\ \A j \in DOMAIN schemas \ {i} : Faultless(schemas[j], body)) =>
                          /\ validated.none
                          /\ Len(errors.v) = 1
                          /\ errors.v[1].field = <<"b", "o", "d", "y", ".">> \o sc.name
                          /\ errors.v[1].received = body[sc.name]

\* a value above max next to a supplied string field was rejected with one
\* error, for a field whose bounds differ
C11_Witness ==
    /\ pc = "done"
    /\ Len(schemas) = 2
    /\ \E i \in DOMAIN schemas :
          /\ schemas[i].type = "number"
          /\ schemas[i].min.n < schemas[i].max.n
          /\ schemas[i].name \in DOMAIN body
          /\ IsNumeric(body[schemas[i].name])
          /\ body[schemas[i].name].n = schemas[i].max.n + 1
    /\ FieldNames[2] \in DOMAIN body
    /\ ~errors.none
    /\ Len(errors.v) = 1

-----------------------------------------------------------------------------
(* prompts/body_validator.py: validate_body_schema                         *)

MaxRegexLen == 2

NoMethod == "None"    \* method=None, the default of the parameter

\* re.compile on patterns over the characters a ( ) *: it fails on an
\* unbalanced parenthesis and on a repeat with nothing to repeat
RECURSIVE ReParse(_, _, _, _)
ReParse(p, i, depth, canRepeat) ==
    IF i > Len(p) THEN depth = 0
    ELSE CASE p[i] = "(" -> ReParse(p, i + 1, depth + 1, FALSE)
           [] p[i] = ")" -> depth > 0 /\ ReParse(p, i + 1, depth - 1, TRUE)
           [] p[i] = "*" -> canRepeat /\ ReParse(p, i + 1, depth, FALSE)
           [] OTHER      -> ReParse(p, i + 1, depth, TRUE)

re_compile(p) == ReParse(p, 1, 0, FALSE)

\* the method check comparing the method as written
MethodCaseSensitive(m, ss) ==
    (m \notin {NoMethod, ""} /\ ss # <<>>) => m \in {"POST", "PUT", "PATCH"}

\* "if method and schemas: if method.upper() not in [...]: raise"
MethodCompatible(m, ss) ==
    (m \notin {NoMethod, ""} /\ ss # <<>>) => upper(m) \in {"POST", "PUT", "PATCH"}

\* "if route_params: ... if schema.name in route_param_set: raise"
NoRouteParamClash(ss, rp) ==
    (~rp.none /\ rp.v # <<>>) => \A i \in DOMAIN ss : ss[i].name \notin Range(rp.v)

\* "if schema.pattern: re.compile(schema.pattern)"
PatternsCompile(ss) ==
    \A i \in DOMAIN ss :
        (ss[i].pattern # PyNone /\ ss[i].pattern.s # <<>>) => re_compile(ss[i].pattern.s)

\* "if schema.enum is not None: if not isinstance(list) or len == 0: raise"
EnumsValid(ss) ==
    \A i \in DOMAIN ss :
        ss[i].enum # NoEnum => (ss[i].enum.t = "list" /\ ss[i].enum.items # <<>>)

validate_body_schema(ss, rp, m) ==
    IF /\ MethodCompatible(m, ss)
       /\ NoRouteParamClash(ss, rp)
       /\ PatternsCompile(ss)
       /\ EnumsValid(ss)
    THEN "none" ELSE "PromptConfigurationError"

RegexTexts == SeqsUpTo({"a", "(", ")", "*"}, MaxRegexLen)
DeclaredPatterns == {PyNone} \cup {PyStrV(p) : p \in RegexTexts}
DeclaredEnums == {NoEnum, EnumList(<<>>), EnumList(<<PyStrV(<<"s">>)>>), EnumScalar}

\* a field with any pattern and enum, alone or after a plain field
ConstrainedFields(name) ==
    {[BodyFieldSchema(name, t, FALSE, PyNone) EXCEPT !.pattern = p, !.enum = e] :
        t \in {"string", "number"}, p \in DeclaredPatterns, e \in DeclaredEnums}
CheckedSchemaLists ==
    {<<>>}
    \cup {<<a>> : a \in ConstrainedFields(FieldNames[1])}
    \cup {<<BodyFieldSchema(FieldNames[2], "string", FALSE, PyNone), a>> : a \in ConstrainedFields(FieldNames[1])}

RouteParamNames ==
    {NoneResult, Some(<<>>), Some(<<FieldNames[1]>>), Some(<<(<<"z">>), FieldNames[2]>>)}
SchemaMethods == {NoMethod, "GET", "get", "POST", "post", "Put", "PATCH", "DELETE"}

InitCheck ==
    /\ pc = "parsed"
    /\ schemas \in CheckedSchemaLists
    /\ route_param_names \in RouteParamNames
    /\ http_method \in SchemaMethods
    /\ raised = "none"
    /\ body_schema = <<>>
    /\ body = <<>> /\ validated = <<>> /\ errors = <<>>
    /\ IdleConcurrent /\ IdleRouter /\ IdleUnify /\ IdleSubst /\ IdleCompose
    /\ IdleProvider /\ IdleHandler

ValidateBodySchema ==
    /\ pc = "parsed"
    /\ raised' = validate_body_schema(schemas, route_param_names, http_method)
    /\ pc' = "checked"
    /\ UNCHANGED <<body_schema, route_param_names, http_method, concurrentVars, routerVars, unifyVars,
                   substVars, composeVars, validateVars, providerVars, handlerVars>>

NextCheck == ValidateBodySchema

SpecCheck == InitCheck /\ [][NextCheck]_vars

\* the four cases, read off the arguments
WrongMethod ==
    /\ schemas # <<>>
    /\ http_method \notin {NoMethod, "POST", "post", "PUT", "Put", "PATCH"}
NameClash ==
    /\ ~route_param_names.none
    /\ \E i \in DOMAIN schemas, j \in DOMAIN route_param_names.v :
          schemas[i].name = route_param_names.v[j]
BadPattern ==
    \E i \in DOMAIN schemas :
        schemas[i].pattern # PyNone /\ ~re_compile(schemas[i].pattern.s)
BadEnum ==
    \E i \in DOMAIN schemas :
        schemas[i].enum = EnumScalar \/ schemas[i].enum = EnumList(<<>>)

\* C12: validate_body_schema raises PromptConfigurationError exactly when a
\* non-empty schema comes with a method other than POST, PUT or PATCH (in
\* any letter case), a field is named like a route parameter, a declared
\* pattern does not compile, or a declared enum is empty or not a list
C12_RaisesExactly ==
    pc = "checked" =>
        /\ raised \in {"none", "PromptConfigurationError"}
        /\ raised = "PromptConfigurationError" <=>
              (WrongMethod \/ NameClash \/ BadPattern \/ BadEnum)

\* a lower-case post with a schema whose only defect is a pattern that
\* does not compile raised the error
C12_Witness ==
    /\ pc = "checked"
    /\ raised = "PromptConfigurationError"
    /\ http_method = "post"
    /\ BadPattern /\ ~NameClash /\ ~BadEnum

-----------------------------------------------------------------------------
(* Schema compilation: parse_body_schema, then validate_body_schema        *)

\* one entry of the 'body' map of the frontmatter: a name and its
\* configuration, a map (keys that are left out read as None) or a scalar
FieldConfig(type, minLength, maxLength, pat, enum, min, max, maxDecimals) ==
    [isdict |-> TRUE, type |-> type, required |-> FALSE, default |-> PyNone,
     minLength |-> minLength, maxLength |-> maxLength, pattern |-> pat, enum |-> enum,
     min |-> min, max |-> max, maxDecimals |-> maxDecimals]
ScalarConfig == [FieldConfig("", PyNone, PyNone, PyNone, NoEnum, PyNone, PyNone, PyNone)
                    EXCEPT !.isdict = FALSE]

\* the BodyFieldSchema built from one configuration map
ParsedField(name, c) ==
    [BodyFieldSchema(name, c.type, c.required, c.default) EXCEPT
        !.min_length = c.minLength, !.max_length = c.maxLength, !.pattern = c.pattern,
        !.enum = c.enum, !.min = c.min, !.max = c.max, !.max_decimals = c.maxDecimals]

\* parse_body_schema: raises unless the value is a map of maps that each
\* name one of the three types; copies every constraint key as it is
parse_body_schema(body_yaml) ==
    IF ~body_yaml.isdict
    THEN [raised |-> "PromptConfigurationError", schemas |-> <<>>]
    ELSE IF \E i \in DOMAIN body_yaml.fields :
               \/ ~body_yaml.fields[i].config.isdict
               \/ body_yaml.fields[i].config.type \notin {"string", "number", "boolean"}
    THEN [raised |-> "PromptConfigurationError", schemas |-> <<>>]
    ELSE [raised |-> "none",
          schemas |-> [i \in DOMAIN body_yaml.fields |->
                          ParsedField(body_yaml.fields[i].name, body_yaml.fields[i].config)]]

\* type values of the frontmatter: "" stands for a missing or empty type
DeclaredTypes == {"", "string", "number", "boolean", "integer"}

FieldConfigs ==
    {ScalarConfig} \cup
    {FieldConfig(t, a, b, c, d, e, f, g) :
        t \in DeclaredTypes,
        a \in {PyNone, PyInt(1)}, b \in {PyNone, PyInt(2)}, c \in {PyNone, PyStrV(<<"a">>)},
        d \in {NoEnum, EnumList(<<PyStrV(<<"s">>)>>)},
        e \in {PyNone, PyInt(1)}, f \in {PyNone, PyInt(3)}, g \in {PyNone, PyInt(0)}}

BodyYamls ==
    {[isdict |-> FALSE, fields |-> <<>>]}
    \cup {[isdict |-> TRUE, fields |-> <<[name |-> FieldNames[1], config |-> c]>>] : c \in FieldConfigs}
    \cup {[isdict |-> TRUE,
           fields |-> <<[name |-> FieldNames[2],
                         config |-> FieldConfig("string", PyNone, PyNone, PyNone, NoEnum, PyNone, PyNone, PyNone)],
                        [name |-> FieldNames[1], config |-> c]>>] : c \in FieldConfigs}

InitCompile ==
    /\ pc = "start"
    /\ body_schema \in BodyYamls
    /\ route_param_names \in {Some(<<>>), Some(<<(<<"z">>)>>)}
    /\ http_method \in {"POST", "PATCH"}
    /\ raised = "none"
    /\ schemas = <<>>
    /\ body = <<>> /\ validated = <<>> /\ errors = <<>>
    /\ IdleConcurrent /\ IdleRouter /\ IdleUnify /\ IdleSubst /\ IdleCompose
    /\ IdleProvider /\ IdleHandler

ParseBodySchema ==
    /\ pc = "start"
    /\ raised' = parse_body_schema(body_schema).raised
    /\ schemas' = parse_body_schema(body_schema).schemas
    /\ pc' = IF parse_body_schema(body_schema).raised = "none" THEN "parsed" ELSE "failed"
    /\ UNCHANGED <<body_schema, route_param_names, http_method, body, validated, errors,
                   concurrentVars, routerVars, unifyVars, substVars, composeVars, providerVars, handlerVars>>

NextCompile == ParseBodySchema \/ ValidateBodySchema

SpecCompile == InitCompile /\ [][NextCompile]_vars

\* a declared field carries a constraint of another kind
WrongKind(c) ==
    /\ c.isdict
    /\ \/ /\ c.type \in {"number", "boolean"}
          /\ c.minLength # PyNone \/ c.maxLength # PyNone \/ c.pattern # PyNone \/ c.enum # NoEnum
       \/ /\ c.type \in {"string", "boolean"}
          /\ c.min # PyNone \/ c.max # PyNone \/ c.maxDecimals # PyNone

\* C13: a schema in which a field declares a constraint of another kind does
\* not compile: parse_body_schema or validate_body_schema raises
\* PromptConfigurationError
C13_WrongKindRejected ==
    (pc \in {"failed", "checked"}
       /\ \E i \in DOMAIN body_schema.fields : WrongKind(body_schema.fields[i].config))
    => raised = "PromptConfigurationError"

-----------------------------------------------------------------------------
(* providers/codex.py: CodexProvider.execute                               *)
(*                                                                         *)
(* A literal that the code only concatenates or compares as a whole (an    *)
(* argument such as "codex", a message) is kept as one element of the      *)
(* character sequence.                                                     *)

MaxPromptLen == 2
MaxAgentLines == 2

AIProviderResult(stdout, stderr, returncode, success, command, error_message) ==
    [stdout |-> stdout, stderr |-> stderr, returncode |-> returncode,
     success |-> success, command |-> command, error_message |-> error_message]

\* shlex.quote: '' for the empty string, the string itself when it has only
\* safe characters, else the string in single quotes with each ' written
\* as '"'"'
UnsafeChars == {" ", "'"}
shlex_quote(s) ==
    IF s = <<>> THEN <<"'", "'">>
    ELSE IF \A i \in DOMAIN s : s[i] \notin UnsafeChars THEN s
    ELSE <<"'">> \o replace(s, 1, <<"'">>, <<"'", "\"", "'", "\"", "'">>) \o <<"'">>

\* " ".join(parts)
RECURSIVE JoinSpace(_)
JoinSpace(parts) ==
    IF Len(parts) = 0 THEN <<>>
    ELSE IF Len(parts) = 1 THEN parts[1]
    ELSE parts[1] \o <<" ">> \o JoinSpace(Tail(parts))

\* cmd: codex exec --sandbox workspace-write --model <model or default> <prompt>
cmd(prompt, model) ==
    <<(<<"codex">>), (<<"exec">>), (<<"--sandbox">>), (<<"workspace-write">>), (<<"--model">>),
      IF model # None /\ model # <<>> THEN model ELSE <<"gpt-5.1-codex-mini">>,
      prompt>>

command_string(c) == JoinSpace([i \in DOMAIN c |-> shlex_quote(c[i])])

\* the result returned when the binary is not in PATH
not_available_result ==
    AIProviderResult(<<>>, <<"Codex CLI not found in PATH">>, -1, FALSE,
                     <<"codex (not available)">>,
                     <<"Codex CLI is not installed or not available in PATH">>)

\* the result returned for dry_run=True
dry_run_result(cs) == AIProviderResult(cs, <<>>, 0, TRUE, cs, None)

\* the result of "except Exception" around the whole execution
error_result ==
    AIProviderResult(<<>>, <<"exception text">>, -1, FALSE,
                     <<"codex (error before execution)">>,
                     <<"Unexpected error executing Codex">>)

\* a timeout result that drops what the readers collected
TimeoutResultWithoutOutput(out_lines, err_lines, cs) ==
    AIProviderResult(<<>>, <<"[ERROR] Codex execution timed out">>, 124, FALSE, cs,
                     <<"Codex execution exceeded timeout">>)

\* the result returned after proc.kill(): what the collectors hold, the
\* timeout marker appended to stderr, exit code 124
timeout_result(out_lines, err_lines, cs) ==
    AIProviderResult(Concat(out_lines),
                     Concat(err_lines) \o (IF err_lines # <<>> THEN <<"\n">> ELSE <<>>)
                        \o <<"[ERROR] Codex execution timed out">>,
                     124, FALSE, cs, <<"Codex execution exceeded timeout">>)

\* the result returned after the process exited by itself
exit_result(out_lines, err_lines, code, cs) ==
    AIProviderResult(Concat(out_lines), Concat(err_lines), code, code = 0, cs,
                     IF code = 0 THEN None ELSE <<"Codex execution failed">>)

NoProcess == [state |-> "none", returncode |-> 0, written |-> 0]
EmptyPipes == [out |-> <<>>, err |-> <<>>]
Line(stream) == IF stream = "out" THEN <<"o", "\n">> ELSE <<"e", "\n">>

\* an early return that looks at the availability only
EarlyReturnIgnoringDryRun(available, c) ==
    IF ~available THEN Some(not_available_result) ELSE NoneResult

\* lines 33-67: the results returned before any process is started
early_return(available, c) ==
    IF ~available THEN Some(not_available_result)
    ELSE IF c.dry_run THEN Some(dry_run_result(command_string(cmd(c.prompt, c.model))))
    ELSE NoneResult

\* lines 33-85: availability, command, dry-run, Popen
ExecuteCall ==
    /\ pc = "p_call"
    /\ IF ~early_return(codex_in_path, call).none
       THEN /\ provider_result' = early_return(codex_in_path, call)
            /\ pc' = "p_return"
            /\ UNCHANGED <<proc, spawned>>
       ELSE \/ /\ proc' = [state |-> "running", returncode |-> 0, written |-> 0]
               /\ spawned' = spawned + 1
               /\ pc' = "p_wait"
               /\ UNCHANGED provider_result
            \/ /\ provider_result' = Some(error_result)      \* Popen raised
               /\ pc' = "p_return"
               /\ UNCHANGED <<proc, spawned>>
    /\ UNCHANGED <<codex_in_path, call, pipe, stdout_lines, stderr_lines, captured_at_kill,
                   concurrentVars, routerVars, unifyVars, substVars, composeVars, validateVars,
                   schemaVars, handlerVars>>

\* the codex process writes a line to one of its pipes
AgentWrites ==
    /\ pc = "p_wait"
    /\ proc.state = "running"
    /\ proc.written < MaxAgentLines
    /\ \E stream \in {"out", "err"} :
          pipe' = [pipe EXCEPT ![stream] = Append(@, Line(stream))]
    /\ proc' = [proc EXCEPT !.written = @ + 1]
    /\ UNCHANGED <<pc, codex_in_path, call, stdout_lines, stderr_lines, captured_at_kill,
                   provider_result, spawned,
                   concurrentVars, routerVars, unifyVars, substVars, composeVars, validateVars,
                   schemaVars, handlerVars>>

\* _reader: a reader thread takes the next line of its stream
ReaderReads ==
    /\ pc \in {"p_wait", "p_join", "p_killed", "p_timed_out"}
    /\ \/ /\ pipe.out # <<>>
          /\ stdout_lines' = Append(stdout_lines, Head(pipe.out))
          /\ pipe' = [pipe EXCEPT !.out = Tail(@)]
          /\ UNCHANGED stderr_lines
       \/ /\ pipe.err # <<>>
          /\ stderr_lines' = Append(stderr_lines, Head(pipe.err))
          /\ pipe' = [pipe EXCEPT !.err = Tail(@)]
          /\ UNCHANGED stdout_lines
    /\ UNCHANGED <<pc, codex_in_path, call, proc, captured_at_kill, provider_result, spawned,
                   concurrentVars, routerVars, unifyVars, substVars, composeVars, validateVars,
                   schemaVars, handlerVars>>

\* exit statuses of the codex process: success, failure, and the status that
\* the provider itself uses for a timeout
ExitCodes == {0, 1, 124}

\* the codex process ends by itself
AgentExits ==
    /\ pc = "p_wait"
    /\ proc.state = "running"
    /\ \E code \in ExitCodes : proc' = [proc EXCEPT !.state = "exited", !.returncode = code]
    /\ UNCHANGED <<pc, codex_in_path, call, pipe, stdout_lines, stderr_lines, captured_at_kill,
                   provider_result, spawned,
                   concurrentVars, routerVars, unifyVars, substVars, composeVars, validateVars,
                   schemaVars, handlerVars>>

\* proc.wait(timeout) returns the exit code
WaitReturns ==
    /\ pc = "p_wait"
    /\ proc.state = "exited"
    /\ pc' = "p_join"
    /\ UNCHANGED <<providerVars,
                   concurrentVars, routerVars, unifyVars, substVars, composeVars, validateVars,
                   schemaVars, handlerVars>>

\* t_out.join(timeout=2), t_err.join(timeout=2), then the result is built
\* from the collectors, whether or not the readers have finished
ExecuteReturns ==
    /\ pc = "p_join"
    /\ provider_result' = Some(exit_result(stdout_lines, stderr_lines, proc.returncode,
                                           command_string(cmd(call.prompt, call.model))))
    /\ pc' = "p_return"
    /\ UNCHANGED <<codex_in_path, call, proc, pipe, stdout_lines, stderr_lines,
                   captured_at_kill, spawned,
                   concurrentVars, routerVars, unifyVars, substVars, composeVars, validateVars,
                   schemaVars, handlerVars>>

\* proc.wait(timeout) raises TimeoutExpired: proc.kill()
WaitTimesOut ==
    /\ pc = "p_wait"
    /\ proc.state = "running"
    /\ proc' = [proc EXCEPT !.state = "killed", !.returncode = -9]
    /\ captured_at_kill' = Some([out |-> stdout_lines, err |-> stderr_lines])
    /\ pc' = "p_killed"
    /\ UNCHANGED <<codex_in_path, call, pipe, stdout_lines, stderr_lines,
                   provider_result, spawned,
                   concurrentVars, routerVars, unifyVars, substVars, composeVars, validateVars,
                   schemaVars, handlerVars>>

\* proc.communicate(timeout=2) reads the same pipes as the reader threads:
\* what it gets of the unread lines is dropped with its return value
Communicate ==
    /\ pc = "p_killed"
    /\ \E i \in 0..Len(pipe.out), j \in 0..Len(pipe.err) :
          pipe' = [out |-> SubSeq(pipe.out, i + 1, Len(pipe.out)),
                   err |-> SubSeq(pipe.err, j + 1, Len(pipe.err))]
    /\ pc' = "p_timed_out"
    /\ UNCHANGED <<codex_in_path, call, proc, stdout_lines, stderr_lines,
                   captured_at_kill, provider_result, spawned,
                   concurrentVars, routerVars, unifyVars, substVars, composeVars, validateVars,
                   schemaVars, handlerVars>>

\* the timeout result is built from the collectors as they are
TimeoutReturns ==
    /\ pc = "p_timed_out"
    /\ provider_result' = Some(timeout_result(stdout_lines, stderr_lines,
                                              command_string(cmd(call.prompt, call.model))))
    /\ pc' = "p_return"
    /\ UNCHANGED <<codex_in_path, call, proc, pipe, stdout_lines, stderr_lines,
                   captured_at_kill, spawned,
                   concurrentVars, routerVars, unifyVars, substVars, composeVars, validateVars,
                   schemaVars, handlerVars>>

NextProvider ==
    \/ ExecuteCall \/ AgentWrites \/ ReaderReads \/ AgentExits
    \/ WaitReturns \/ ExecuteReturns \/ WaitTimesOut \/ Communicate \/ TimeoutReturns

PromptTexts == SeqsUpTo({"a", " ", "'"}, MaxPromptLen)
ModelNames == {None, <<"m">>}

InitProvider ==
    /\ pc = "p_call"
    /\ codex_in_path \in BOOLEAN
    /\ call \in [prompt : PromptTexts, model : ModelNames, dry_run : BOOLEAN]
    /\ proc = NoProcess
    /\ pipe = EmptyPipes
    /\ stdout_lines = <<>> /\ stderr_lines = <<>>
    /\ captured_at_kill = NoneResult
    /\ provider_result = NoneResult
    /\ spawned = 0
    /\ IdleConcurrent /\ IdleRouter /\ IdleUnify /\ IdleSubst /\ IdleCompose /\ IdleValidate
    /\ IdleSchema /\ IdleHandler

SpecProvider == InitProvider /\ [][NextProvider]_vars

\* C16: a call with dry_run=True returns success, exit code 0, empty stderr,
\* no error message, and the command line that would be run as both stdout
\* and command, whether or not the codex binary is installed
C16_DryRunSynthetic ==
    (pc = "p_return" /\ call.dry_run) =>
        provider_result = Some(dry_run_result(command_string(cmd(call.prompt, call.model))))

IsPrefix(s, t) == Len(s) <= Len(t) /\ SubSeq(t, 1, Len(s)) = s

\* C17: when the wait times out the process has been killed, it is the only
\* process started, and the result has exit code 124, success false and the
\* stdout and stderr collected before the kill
C17_TimeoutKeepsOutput ==
    /\ spawned <= 1
    /\ (pc = "p_return" /\ ~captured_at_kill.none) =>
          /\ proc.state = "killed"
          /\ spawned = 1
          /\ provider_result.v.returncode = 124
          /\ ~provider_result.v.success
          /\ IsPrefix(Concat(captured_at_kill.v.out), provider_result.v.stdout)
          /\ IsPrefix(Concat(captured_at_kill.v.err), provider_result.v.stderr)

\* a timeout result after the readers had collected a line of each stream
\* before the kill
C17_Witness ==
    /\ pc = "p_return"
    /\ ~captured_at_kill.none
    /\ captured_at_kill.v.out # <<>>
    /\ captured_at_kill.v.err # <<>>
    /\ provider_result.v.returncode = 124

-----------------------------------------------------------------------------
(* main.py: dynamic_prompt_handler, with the executor and the provider it  *)
(* calls                                                                   *)

Missing == "(missing)"      \* request.headers.get / query_params.get miss

\* str.lower() on the values the flags are drawn from
lower(v) == IF v = "TRUE" THEN "true" ELSE v

\* _parse_dry_flag: "True", "False" or "None"
parse_dry_flag(value) ==
    IF value = Missing THEN "None"
    ELSE IF value = "" THEN "True"
    ELSE IF lower(value) \in {"true", "1"} THEN "True"
    ELSE IF lower(value) \in {"false", "0"} THEN "False"
    ELSE "None"

\* the query flag read before the header flag
QueryBeforeHeader(prompt_dry, dry_header, dry_query) ==
    IF prompt_dry # "None" THEN prompt_dry = "True"
    ELSE IF dry_query # "None" THEN dry_query = "True"
    ELSE IF dry_header # "None" THEN dry_header = "True"
    ELSE FALSE

\* lines 381-385: match.prompt.dry, else dry_header, else dry_query, else False
effective_dry_run(prompt_dry, dry_header, dry_query) ==
    IF prompt_dry # "None" THEN prompt_dry = "True"
    ELSE IF dry_header # "None" THEN dry_header = "True"
    ELSE IF dry_query # "None" THEN dry_query = "True"
    ELSE FALSE

\* a response: its status, the keys of its error detail, its text
Resp(status, keys, text) == [status |-> status, keys |-> keys, text |-> text]
NoResp == Resp(0, {}, <<>>)

NotFound          == Resp(404, {"error", "message", "available_prompts"}, <<>>)
ConfigurationError == Resp(500, {"error", "file", "message", "resolution"}, <<>>)
UnsupportedMedia  == Resp(415, {"error", "message", "received", "expected"}, <<>>)
InvalidJson       == Resp(400, {"error", "message"}, <<>>)
ValidationFailed  == Resp(422, {"error", "details", "hint"}, <<>>)
ProviderUnavailable == Resp(503, {"error", "message", "provider"}, <<>>)
ProviderNotFound  == Resp(503, {"error", "message", "available_providers"}, <<>>)
RequestTimeout    == Resp(408, {"error", "message", "provider", "stderr"}, <<>>)
ExecutionFailed   == Resp(500, {"error", "message", "provider", "returncode", "stderr"}, <<>>)
UnexpectedError   == Resp(500, {"error", "message"}, <<>>)
LoggingFailed     == Resp(500, {"error", "message"}, <<>>)
Success(stdout)   == Resp(200, {}, stdout)
Preview(command)  == Resp(200, {}, command)

\* "log_ctx.set_response(...); try: write_log(...) except IOError: log it;
\* raise HTTPException(...)": the response stands whether or not the write
\* fails (the bare "except: pass" of the exception handlers does the same)
RespondLogged(r) ==
    /\ determined' = r
    /\ response' = r
    /\ \E failed \in BOOLEAN : log_failures' = log_failures + (IF failed THEN 1 ELSE 0)
    /\ pc' = "h_done"

\* lines 331-385: flags, router, not found, effective dry-run flag
HandlerRoute ==
    /\ pc = "h_start"
    /\ IF found.none
       THEN /\ RespondLogged(NotFound)
            /\ UNCHANGED dry_run
       ELSE /\ dry_run' = effective_dry_run(found.v.dry,
                                            parse_dry_flag(request.dry_header),
                                            parse_dry_flag(request.dry_query))
            /\ pc' = IF dry_run' THEN "h_dry" ELSE "h_normal"
            /\ UNCHANGED <<response, determined, log_failures>>
    /\ UNCHANGED <<request, found, providerVars,
                   concurrentVars, routerVars, unifyVars, substVars, composeVars, validateVars, schemaVars>>

\* executor.execute(prompt, route_params=match.path_params, body_params=bp,
\* dry_run=flag): it raises, or it hands the substituted prompt, the
\* prompt's model and the flag to provider.execute
CallExecutor(flag, bp) ==
    \/ /\ RespondLogged(UnexpectedError)
       /\ UNCHANGED call
    \/ /\ call' = [prompt |-> substitute_variables(found.v.text, route_params, bp),
                   model |-> found.v.model, dry_run |-> flag]
       /\ pc' = "p_call"
       /\ UNCHANGED <<response, determined, log_failures>>

\* lines 387-410: the dry-run branch up to the executor, called with body_params=None
HandlerDryRun ==
    /\ pc = "h_dry"
    /\ IF found.v.agent = "unknown"
       THEN RespondLogged(ProviderNotFound) /\ UNCHANGED call
       ELSE CallExecutor(TRUE, <<>>)
    /\ UNCHANGED <<request, found, dry_run, codex_in_path, proc, pipe, stdout_lines,
                   stderr_lines, captured_at_kill, provider_result, spawned,
                   concurrentVars, routerVars, unifyVars, substVars, composeVars, validateVars, schemaVars>>

\* lines 412-430: the preview of the command, returned without write_log
HandlerPreview ==
    /\ pc = "p_return"
    /\ dry_run
    /\ response' = Preview(provider_result.v.command)
    /\ pc' = "h_done"
    /\ UNCHANGED <<request, found, dry_run, determined, log_failures, providerVars,
                   concurrentVars, routerVars, unifyVars, substVars, composeVars, validateVars, schemaVars>>

\* lines 434-522: schema compilation, content type, JSON, validation
HandlerValidate ==
    /\ pc = "h_normal"
    /\ IF found.v.has_schema
       THEN \/ RespondLogged(ConfigurationError)
            \/ RespondLogged(UnsupportedMedia)
            \/ RespondLogged(InvalidJson)
            \/ RespondLogged(ValidationFailed)
            \/ RespondLogged(UnexpectedError)
            \/ pc' = "h_exec" /\ UNCHANGED <<response, determined, log_failures>>
       ELSE pc' = "h_exec" /\ UNCHANGED <<response, determined, log_failures>>
    /\ UNCHANGED <<request, found, dry_run, providerVars,
                   concurrentVars, routerVars, unifyVars, substVars, composeVars, validateVars, schemaVars>>

\* lines 524-563: provider lookup, availability, executor
HandlerCallsExecutor ==
    /\ pc = "h_exec"
    /\ IF found.v.agent = "unknown"
       THEN RespondLogged(ProviderNotFound) /\ UNCHANGED call
       ELSE IF ~codex_in_path
       THEN RespondLogged(ProviderUnavailable) /\ UNCHANGED call
       ELSE CallExecutor(dry_run, body_params)
    /\ UNCHANGED <<request, found, dry_run, codex_in_path, proc, pipe, stdout_lines,
                   stderr_lines, captured_at_kill, provider_result, spawned,
                   concurrentVars, routerVars, unifyVars, substVars, composeVars, validateVars, schemaVars>>

\* lines 565-619: timeout, failure, success; on success a write_log that
\* raises IOError is answered with 500 "Logging Failed"
HandlerResult ==
    /\ pc = "p_return"
    /\ ~dry_run
    /\ IF provider_result.v.returncode = 124
       THEN RespondLogged(RequestTimeout)
       ELSE IF ~provider_result.v.success
       THEN RespondLogged(ExecutionFailed)
       ELSE /\ determined' = Success(provider_result.v.stdout)
            /\ \/ /\ response' = Success(provider_result.v.stdout)
                  /\ UNCHANGED log_failures
               \/ /\ response' = LoggingFailed
                  /\ log_failures' = log_failures + 1
            /\ pc' = "h_done"
    /\ UNCHANGED <<request, found, dry_run, providerVars,
                   concurrentVars, routerVars, unifyVars, substVars, composeVars, validateVars, schemaVars>>

NextHandler ==
    \/ HandlerRoute \/ HandlerDryRun \/ HandlerPreview \/ HandlerValidate
    \/ HandlerCallsExecutor \/ HandlerResult
    \/ NextProvider

DryValues == {Missing, "", "TRUE", "1", "false", "0", "yes"}

\* what the handler uses of the matched prompt
FoundPrompts ==
    {NoneResult} \cup
    {Some([dry |-> d, has_schema |-> h, agent |-> a, model |-> None, text |-> <<"a">>]) :
        d \in {"None", "True", "False"}, h \in BOOLEAN, a \in {"codex", "unknown"}}

InitHandler ==
    /\ pc = "h_start"
    /\ request \in [dry_header : DryValues, dry_query : DryValues]
    /\ found \in FoundPrompts
    /\ dry_run = FALSE
    /\ response = NoResp
    /\ determined = NoResp
    /\ log_failures = 0
    /\ codex_in_path \in BOOLEAN
    /\ call = [prompt |-> <<>>, model |-> None, dry_run |-> FALSE]
    /\ proc = NoProcess
    /\ pipe = EmptyPipes
    /\ stdout_lines = <<>> /\ stderr_lines = <<>>
    /\ captured_at_kill = NoneResult
    /\ provider_result = NoneResult
    /\ spawned = 0
    /\ IdleConcurrent /\ IdleRouter /\ IdleUnify /\ IdleSubst /\ IdleCompose /\ IdleValidate
    /\ IdleSchema

SpecHandler == InitHandler /\ [][NextHandler]_vars

\* the flag a header or query value stands for, if it is a recognised value
SaysTrue(v) == v \in {"", "true", "TRUE", "1"}
SaysFalse(v) == v \in {"false", "0"}

\* C14: the effective dry-run flag is the prompt's dry value when set, else
\* the x-dry header's flag when recognised, else the ?dry query's flag when
\* recognised, else false
C14_DryRunPrecedence ==
    (pc # "h_start" /\ ~found.none) =>
        dry_run = IF found.v.dry # "None" THEN found.v.dry = "True"
                  ELSE IF SaysTrue(request.dry_header) THEN TRUE
                  ELSE IF SaysFalse(request.dry_header) THEN FALSE
                  ELSE IF SaysTrue(request.dry_query) THEN TRUE
                  ELSE FALSE

\* a prompt with dry: true is run dry although header and query say false
C14_Witness ==
    /\ pc = "h_dry"
    /\ found.v.dry = "True"
    /\ SaysFalse(request.dry_header)
    /\ SaysFalse(request.dry_query)
    /\ dry_run

\* C15: with the effective dry-run flag true no codex process is started,
\* neither by the handler's paths nor by a provider call with dry_run=True
C15_DryRunNeverSpawns ==
    /\ dry_run => spawned = 0
    /\ call.dry_run => spawned = 0

\* a dry-run request went through executor and provider with the binary
\* installed and was answered with the preview
C15_Witness ==
    /\ pc = "h_done"
    /\ dry_run
    /\ codex_in_path
    /\ ~provider_result.none
    /\ provider_result.v.success
    /\ response.status = 200
    /\ spawned = 0

\* C18: every failure response carries both an error and a message field
C18_ErrorAndMessage ==
    (pc = "h_done" /\ response.status >= 400) =>
        {"error", "message"} \subseteq response.keys

\* C19: when write_log raises, the client still receives the status and
\* body that were determined before the log write
C19_LogFailureKeepsResponse ==
    (pc = "h_done" /\ log_failures > 0) => response = determined

-----------------------------------------------------------------------------
(* Loading on its own: load_prompts(prompts_dir)                           *)

\* directories whose documents may be unreadable and may declare a body
UnvettedDirs ==
    {{[stem |-> s, parses |-> c[s][1] = "parses", method |-> Absent, route |-> None, body |-> c[s][2]] :
          s \in {t \in Stems : c[t][1] # "no file"}} :
        c \in [Stems -> {"parses", "raises", "no file"} \X BodyKinds]}

InitLoader ==
    /\ pc = "start"
    /\ path_kind \in {"missing", "file", "dir"}
    /\ dir \in IF path_kind = "dir" THEN UnvettedDirs ELSE {{}}
    /\ prompts = <<>>
    /\ req = NoRequest
    /\ match = NoMatch
    /\ IdleUnify /\ IdleSubst /\ IdleCompose /\ IdleValidate
    /\ IdleLater

NextLoader == LoadPrompts

SpecLoader == InitLoader /\ [][NextLoader]_vars

\* the documents of the directory that can be read
Readable == {f \in dir : f.parses}

\* C20: load_prompts returns one prompt for each document that parses, in
\* the order of the file names, and skips the others; a 'body' that is not
\* a map is dropped while its prompt is loaded; a path that is missing or
\* not a directory gives the empty list
C20_LoadSkipsUnparsable ==
    pc = "loaded" =>
        IF path_kind # "dir" THEN prompts = <<>>
        ELSE /\ Len(prompts) = Cardinality(Readable)
             /\ \A f \in Readable :
                   \E i \in DOMAIN prompts :
                       /\ prompts[i].filename = f.stem
                       /\ prompts[i].body_schema = (IF f.body = "dict" THEN "dict" ELSE "None")
             /\ \A i, j \in DOMAIN prompts :
                   i < j => StrLess(prompts[i].filename \o <<".", "m", "d">>,
                                    prompts[j].filename \o <<".", "m", "d">>)

\* two documents were loaded next to one that does not parse, one of them
\* with a 'body' that is not a map
C20_Witness ==
    /\ pc = "loaded"
    /\ path_kind = "dir"
    /\ Cardinality(dir) = 3
    /\ Len(prompts) = 2
    /\ \E f \in Readable : f.body = "scalar"
    /\ \E f \in Readable : f.body = "dict"


-----------------------------------------------------------------------------
(* main.py: setup_user_workspace, called by concurrent requests            *)
(*                                                                         *)
(* A directory is a path from the working directory: a sequence of names.  *)
(* Path.mkdir is followed system call by system call, so that the calls of *)
(* different requests interleave between any two of them.                  *)

NumRequests == 2

RequestIds == 1..NumRequests

\* Config.WORKSPACE_DIR / "storage", with WORKSPACE_DIR = ./data
STORAGE_DIR == <<"data", "storage">>

\* Config.get_user_workspace_dir
get_user_workspace_dir(user_id, project_id) ==
    STORAGE_DIR \o <<lower(user_id), lower(project_id)>>

\* Path.parent
parent(p) == IF p = <<>> THEN p ELSE SubSeq(p, 1, Len(p) - 1)

\* os.mkdir(p): what the system call does on the directories that exist
os_mkdir(p, dirs) ==
    IF p \in dirs THEN "FileExistsError"
    ELSE IF parent(p) \notin dirs THEN "FileNotFoundError"
    ELSE "created"

\* a directory made only if it is absent, its presence being an error
CreateOnlyIfAbsent == [parents |-> TRUE, exist_ok |-> FALSE]

\* lines 100 and 104: mkdir(parents=True, exist_ok=True)
mkdir_flags == [parents |-> TRUE, exist_ok |-> TRUE]

\* a pending Path.mkdir: its path, its flags, and the call it is about to make
Frame(p, flags, step) == [path |-> p, flags |-> flags, step |-> step]

NotCalled ==
    [at |-> "call", stack |-> <<>>, existed |-> FALSE, made |-> {},
     returned |-> NoneResult]

\* Path.mkdir returned: the next statement of setup_user_workspace
Returned(s) ==
    IF Len(s.stack) > 1 THEN [s EXCEPT !.stack = Tail(@)]
    ELSE IF s.at = "user_dir"
    THEN [s EXCEPT !.at = "workspace",
                   !.stack = <<Frame(get_user_workspace_dir(s.user_id, s.project_id),
                                     mkdir_flags, "mkdir")>>]
    ELSE [s EXCEPT !.at = "returned", !.stack = <<>>,
                   !.returned = Some(get_user_workspace_dir(s.user_id, s.project_id))]

Raised(s) == [s EXCEPT !.at = "raised", !.stack = <<>>]

\* Path.mkdir: "try: os.mkdir(self) / except FileNotFoundError: make the
\* parent with parents=True, exist_ok=True, then self with parents=False /
\* except OSError: raise unless exist_ok and self.is_dir()"; one system call
\* of the innermost pending mkdir; the result is the call's state and the disk
mkdir_step(s, dirs) ==
    LET f == Head(s.stack)
        p == f.path
    IN  IF f.step = "is_dir"
        THEN [s |-> IF p \in dirs THEN Returned(s) ELSE Raised(s), dirs |-> dirs]
        ELSE CASE os_mkdir(p, dirs) = "created" ->
                    [s |-> Returned([s EXCEPT !.made = @ \cup {p}]), dirs |-> dirs \cup {p}]
               [] os_mkdir(p, dirs) = "FileNotFoundError" ->
                    [s |-> IF f.flags.parents /\ parent(p) # p
                           THEN [s EXCEPT !.stack =
                                    <<Frame(parent(p), [parents |-> TRUE, exist_ok |-> TRUE],
                                            "mkdir"),
                                      Frame(p, [f.flags EXCEPT !.parents = FALSE], "mkdir")>>
                                    \o Tail(@)]
                           ELSE Raised(s),
                     dirs |-> dirs]
               [] OTHER ->
                    [s |-> IF f.flags.exist_ok
                           THEN [s EXCEPT !.stack = <<[f EXCEPT !.step = "is_dir"]>> \o Tail(@)]
                           ELSE Raised(s),
                     dirs |-> dirs]

UserIds    == {"anonymous", "alice"}
ProjectIds == {"default", "blog"}

\* what can be on disk before the requests arrive: every directory has its parent
Storages ==
    {{<<>>}, {<<>>, <<"data">>}} \cup
    {{<<>>, <<"data">>, STORAGE_DIR}
        \cup {STORAGE_DIR \o <<u>> : u \in users}
        \cup {STORAGE_DIR \o <<w[1], w[2]>> : w \in workspaces} :
     users \in SUBSET UserIds, workspaces \in SUBSET (UserIds \X ProjectIds)} 

PrefixClosed(dirs) == \A p \in dirs : parent(p) \in dirs

InitWorkspace ==
    /\ pc = "serving"
    /\ storage \in {d \in Storages : PrefixClosed(d)}
    /\ \E args \in [RequestIds -> UserIds \X ProjectIds] :
          setup = [r \in RequestIds |->
                      [user_id |-> args[r][1], project_id |-> args[r][2]] @@ NotCalled]
    /\ routers = <<>> /\ inflight = <<>>
    /\ IdleRouter /\ IdleUnify /\ IdleSubst /\ IdleCompose /\ IdleValidate
    /\ IdleSchema /\ IdleProvider /\ IdleHandler

\* line 96: workspace_path of request r
WorkspaceOf(r) == get_user_workspace_dir(setup[r].user_id, setup[r].project_id)

\* lines 96-100: the paths, and the first Path.mkdir about to start
SetupCall(r) ==
    /\ setup[r].at = "call"
    /\ setup' = [setup EXCEPT ![r] =
          [@ EXCEPT !.at = "user_dir",
                    !.existed = WorkspaceOf(r) \in storage,
                    !.stack = <<Frame(STORAGE_DIR \o <<setup[r].user_id>>, mkdir_flags,
                                      "mkdir")>>]]
    /\ UNCHANGED <<pc, storage, routers, inflight, routerVars, unifyVars, substVars,
                   composeVars, validateVars, schemaVars, providerVars, handlerVars>>

\* lines 100-107: one system call of the request's pending mkdir
SetupMkdir(r) ==
    /\ setup[r].at \in {"user_dir", "workspace"}
    /\ LET next == mkdir_step(setup[r], storage)
       IN  /\ setup' = [setup EXCEPT ![r] = next.s]
           /\ storage' = next.dirs
    /\ UNCHANGED <<pc, routers, inflight, routerVars, unifyVars, substVars,
                   composeVars, validateVars, schemaVars, providerVars, handlerVars>>

NextWorkspace == \E r \in RequestIds : SetupCall(r) \/ SetupMkdir(r)

SpecWorkspace == InitWorkspace /\ [][NextWorkspace]_vars

\* C21: whatever the interleaving of the requests' setup_user_workspace
\* calls, no call raises; a call that returned has returned the workspace
\* path of its user and project, which is then a directory on disk, so that
\* calls for the same user and project return the same path; and a call
\* that found the workspace on disk has created nothing.
C21_IdempotentWorkspace ==
    \A r \in DOMAIN setup :
        /\ setup[r].at # "raised"
        /\ setup[r].at = "returned" =>
              /\ setup[r].returned = Some(WorkspaceOf(r))
              /\ WorkspaceOf(r) \in storage
              /\ \A q \in DOMAIN setup :
                    (/\ setup[q].at = "returned"
                     /\ setup[q].user_id = setup[r].user_id
                     /\ setup[q].project_id = setup[r].project_id)
                    => setup[q].returned = setup[r].returned
        /\ setup[r].existed => setup[r].made = {}

\* two first calls for the same workspace, each of which created a part of it
C21_Witness ==
    \E r, q \in DOMAIN setup :
        /\ r # q
        /\ WorkspaceOf(r) = WorkspaceOf(q)
        /\ setup[r].at = "returned" /\ setup[q].at = "returned"
        /\ ~setup[r].existed /\ ~setup[q].existed
        /\ setup[r].made # {} /\ setup[q].made # {}


-----------------------------------------------------------------------------
(* main.py 355-360: concurrent requests, each with the DynamicRouter it    *)
(* constructs, over a prompts directory that is edited while they run      *)

\* one router instance at module level, used by every request
SharedRouter(r) == 1

\* the router instance request r works with: the local variable "router"
RouterOf(r) == r

\* DynamicRouter.__init__: self.prompts = []
DynamicRouter == <<>>

\* prompt documents of the directory while the server runs
LiveStems  == {<<"a">>, <<"b">>}
LiveRoutes == {None, <<"/", "a">>}
LiveDirs ==
    {{[stem |-> s, parses |-> TRUE, method |-> Absent, route |-> c[s], body |-> Absent] :
          s \in {t \in LiveStems : c[t] # <<"no file">>}} :
        c \in [LiveStems -> LiveRoutes \cup {<<"no file">>}]}
LivePaths == {<<"/", "a">>, <<"/", "b">>}

\* the documents of d under stem s
Under(d, s) == {f \in d : f.stem = s}

NotArrived == [at |-> "idle", req |-> NoRequest, seen |-> {}, match |-> NoMatch]

InitServe ==
    /\ pc = "serving"
    /\ path_kind = "dir"
    /\ dir \in LiveDirs
    /\ prompts = <<>> /\ req = NoRequest /\ match = NoMatch
    /\ routers = [i \in RequestIds |-> DynamicRouter]
    /\ inflight = [r \in RequestIds |-> NotArrived]
    /\ storage = {} /\ setup = <<>>
    /\ IdleUnify /\ IdleSubst /\ IdleCompose /\ IdleValidate
    /\ IdleSchema /\ IdleProvider /\ IdleHandler

\* a prompt document is added, edited or removed on disk
EditPrompts ==
    /\ \E d \in LiveDirs :
          /\ \E s \in LiveStems :
                /\ Under(d, s) # Under(dir, s)
                /\ \A t \in LiveStems \ {s} : Under(d, t) = Under(dir, t)
          /\ dir' = d
    /\ UNCHANGED <<pc, path_kind, prompts, req, match, routers, inflight, storage, setup,
                   unifyVars, substVars, composeVars, validateVars, schemaVars,
                   providerVars, handlerVars>>

\* line 356: router = DynamicRouter(prompts_dir), for the request's method and path
RouterNew(r) ==
    /\ inflight[r].at = "idle"
    /\ \E p \in LivePaths :
          inflight' = [inflight EXCEPT ![r] =
                          [@ EXCEPT !.at = "constructed",
                                    !.req = [method |-> "GET", path |-> p]]]
    /\ routers' = [routers EXCEPT ![RouterOf(r)] = DynamicRouter]
    /\ UNCHANGED <<pc, routerVars, storage, setup,
                   unifyVars, substVars, composeVars, validateVars, schemaVars,
                   providerVars, handlerVars>>

\* line 357: router.load_prompts(); seen records the directory that was scanned
RouterLoad(r) ==
    /\ inflight[r].at = "constructed"
    /\ \E listing \in Listings(dir) :
          routers' = [routers EXCEPT ![RouterOf(r)] = load_prompts(path_kind, listing)]
    /\ inflight' = [inflight EXCEPT ![r] = [@ EXCEPT !.at = "loaded", !.seen = dir]]
    /\ UNCHANGED <<pc, routerVars, storage, setup,
                   unifyVars, substVars, composeVars, validateVars, schemaVars,
                   providerVars, handlerVars>>

\* line 360: match = router.match_route(method, full_path)
RouterMatch(r) ==
    /\ inflight[r].at = "loaded"
    /\ inflight' = [inflight EXCEPT ![r] =
          [@ EXCEPT !.at = "matched",
                    !.match = match_route(routers[RouterOf(r)], inflight[r].req.method,
                                          inflight[r].req.path)]]
    /\ UNCHANGED <<pc, routerVars, routers, storage, setup,
                   unifyVars, substVars, composeVars, validateVars, schemaVars,
                   providerVars, handlerVars>>

NextServe ==
    \/ EditPrompts
    \/ \E r \in RequestIds : RouterNew(r) \/ RouterLoad(r) \/ RouterMatch(r)

SpecServe == InitServe /\ [][NextServe]_vars

\* the prompt set a scan of directory d yields
Scan(d) == load_prompts("dir", CHOOSE l \in Listings(d) : TRUE)

\* C22: between its scan and its match a request's router holds the prompt
\* set of the directory as that request scanned it, whatever other requests
\* and edits of the directory did meanwhile, and the request's match is the
\* match of its method and path against that prompt set; so a request that
\* scans after an edit resolves against the edited directory.
C22_OwnFreshPromptSet ==
    \A r \in DOMAIN inflight :
        /\ inflight[r].at = "loaded" => routers[r] = Scan(inflight[r].seen)
        /\ inflight[r].at = "matched" =>
              inflight[r].match = match_route(Scan(inflight[r].seen),
                                              inflight[r].req.method, inflight[r].req.path)

\* two requests for the same path that are answered differently, because
\* the directory was edited between their scans
C22_Witness ==
    \E r, q \in DOMAIN inflight :
        /\ inflight[r].at = "matched" /\ inflight[q].at = "matched"
        /\ inflight[r].req = inflight[q].req
        /\ inflight[r].seen # inflight[q].seen
        /\ inflight[r].seen # dir
        /\ inflight[q].seen = dir
        /\ inflight[r].match # inflight[q].match


-----------------------------------------------------------------------------
(* Further claims about the router                                         *)

\* C24: a match of type 'fallback' is a prompt that declares no route
C24_FallbackOnlyWithoutRoute ==
    (pc = "matched" /\ match.match_type = "fallback") => match.prompt.route = None

\* C30: the prompt of every match declares the upper-cased request method
C30_MatchHasRequestMethod ==
    (pc = "matched" /\ match # NoMatch) => match.prompt.method = upper(req.method)


-----------------------------------------------------------------------------
(* Composition followed by substitution:                                   *)
(* substitute_variables(compose_prompt(body, project), route, body_params) *)

\* AGENTS.md of the project
RoundTripPreambles ==
    {None, <<"P">>, <<"P">> \o placeholder,
     <<"$", "{", "x", ":", "d", "}">> \o placeholder,
     <<"$", "{", "1", "}">>}

\* parameter values; some carry the characters of placeholder syntax
RoundTripRouteValues == RouteValues \cup {<<"{", "x", "}">>}

InitRoundTrip ==
    /\ pc = "start"
    /\ pieces \in SeqsUpTo(TemplatePieces, MaxTemplatePieces)
    /\ prompt_body = Template(pieces)
    /\ agentsFile \in RoundTripPreambles
    /\ route_params \in Dicts(VarNames, RoundTripRouteValues)
    /\ body_params \in Dicts(VarNames, BodyValues)
    /\ composed = <<>>
    /\ result = <<>>
    /\ agentPrompt = None
    /\ IdleRouter /\ IdleUnify /\ IdleValidate
    /\ IdleLater

\* compose_prompt(prompt_body, project_id)
RoundTripCompose ==
    /\ pc = "start"
    /\ composed' = compose_prompt(prompt_body, agentsFile)
    /\ pc' = "composed"
    /\ UNCHANGED <<laterVars, agentsFile, prompt_body, agentPrompt, pieces, route_params,
                   body_params, result, routerVars, unifyVars, validateVars>>

\* substitute_variables(composed, route_params, body_params)
RoundTripSubstitute ==
    /\ pc = "composed"
    /\ result' = substitute_variables(composed, route_params, body_params)
    /\ pc' = "done"
    /\ UNCHANGED <<laterVars, composeVars, pieces, route_params, body_params,
                   routerVars, unifyVars, validateVars>>

NextRoundTrip == RoundTripCompose \/ RoundTripSubstitute

SpecRoundTrip == InitRoundTrip /\ [][NextRoundTrip]_vars

\* s holds a token: "${", then some "}" further on
HasToken(s) ==
    \E i \in 1..Len(s) :
        /\ StartsWithAt(s, i, <<"$", "{">>)
        /\ \E j \in (i + 2)..Len(s) : s[j] = "}"

\* every "$" of s starts a well-formed placeholder whose default has no "$"
OnlyPlaceholders(s) ==
    \A i \in 1..Len(s) :
        s[i] = "$" =>
            /\ MatchVariable(s, i).ok
            /\ "$" \notin Range(SubSeq(s, i + 1, MatchVariable(s, i).end))

\* no parameter value has a "$" in its text
PlainValues ==
    /\ \A k \in DOMAIN route_params : "$" \notin Range(route_params[k])
    /\ \A k \in DOMAIN body_params : "$" \notin Range(str(body_params[k]))

\* C23 as stated: whatever the preamble and the parameter values, the
\* substituted composition of a template of well-formed placeholders holds
\* no ${...} token
C23_RoundTripAsStated ==
    pc = "done" => ~HasToken(result)

\* C23: when every "$" of the composed text starts a well-formed
\* placeholder whose default holds no "$", and no parameter value holds a
\* "$", the substituted composition holds no ${...} token
C23_RoundTrip ==
    (pc = "done" /\ OnlyPlaceholders(composed) /\ PlainValues) => ~HasToken(result)

\* a preamble with a placeholder of its own around a body with a
\* placeholder, both resolved, one from a parameter and one from its default
C23_Witness ==
    /\ pc = "done"
    /\ OnlyPlaceholders(composed) /\ PlainValues
    /\ agentsFile = <<"$", "{", "x", ":", "d", "}">> \o placeholder
    /\ \E i \in DOMAIN pieces : pieces[i].kind = "var" /\ pieces[i].ns = "route"
    /\ DOMAIN route_params = {}
    /\ DOMAIN body_params # {}
    /\ result # <<>>


-----------------------------------------------------------------------------
(* main.py 432-522 in full: the request body from the wire to the          *)
(* body_params that the executor substitutes, inside the whole handler     *)

\* Content-Type header values ('' when the header is missing)
ContentTypes == {<<"application/json">>, <<"application/json", "; charset=utf-8">>,
                 <<"text/plain">>, <<>>}

\* what json.loads makes of a JSON document that is no object
NonObjectKinds == {"array", "string", "number", "boolean", "null"}

\* request.body(): nothing, bytes that are no JSON, or a JSON document
RawBody(kind, doc) == [kind |-> kind, doc |-> doc]
RawBodies ==
    {RawBody(k, <<>>) : k \in {"empty", "invalid"} \cup NonObjectKinds}
    \cup {RawBody("object", d) :
             d \in Dicts(VarNames, {PyStrV(<<"w">>), PyInt(5), PyNone})}

\* list(match.path_params.keys()) if match.path_params else []
keys(d) ==
    CHOOSE l \in [1..Cardinality(DOMAIN d) -> DOMAIN d] :
        \A i, j \in DOMAIN l : l[i] = l[j] => i = j

\* line 521: {k: str(v) if v is not None else "" for k, v in validated_data.items()}
as_body_params(data) ==
    [k \in DOMAIN data |-> PyStrV(IF data[k] = PyNone THEN <<>> ELSE str(data[k]))]

\* what lines 436-522 end with
BodyStage(resp, b, v, bp) ==
    [response |-> resp, body |-> b, checked |-> v, body_params |-> bp]

Unchecked == [validated |-> NoneResult, errors |-> NoneResult]

\* a body stage that lets a request through whose body failed validation
ValidateBodyLenient(r, ss, rp) ==
    IF upper(r.method) \notin {"POST", "PUT", "PATCH"}
    THEN BodyStage(ConfigurationError, <<>>, Unchecked, <<>>)
    ELSE IF validate_body_schema(ss, Some(keys(rp)), r.method) # "none"
    THEN BodyStage(ConfigurationError, <<>>, Unchecked, <<>>)
    ELSE IF ~StartsWithAt(r.content_type, 1, <<"application/json">>)
    THEN BodyStage(UnsupportedMedia, <<>>, Unchecked, <<>>)
    ELSE IF r.raw.kind = "invalid"
    THEN BodyStage(InvalidJson, <<>>, Unchecked, <<>>)
    ELSE IF r.raw.kind \in NonObjectKinds
    THEN BodyStage(UnexpectedError, <<>>, Unchecked, <<>>)
    ELSE LET request_body == IF r.raw.kind = "empty" THEN <<>> ELSE r.raw.doc
             v == validate_request_body(request_body, ss)
         IN  BodyStage(NoResp, request_body, v,
                       IF v.validated.none THEN <<>> ELSE as_body_params(v.validated.v))

\* lines 436-522 for a prompt with a body schema: the method, the schema,
\* the content type, json.loads (an empty body is {}), validate_request_body,
\* whose model(**body) raises TypeError for a body that is no dict, and the
\* conversion of the validated values
validate_body(r, ss, rp) ==
    IF upper(r.method) \notin {"POST", "PUT", "PATCH"}
    THEN BodyStage(ConfigurationError, <<>>, Unchecked, <<>>)
    ELSE IF validate_body_schema(ss, Some(keys(rp)), r.method) # "none"
    THEN BodyStage(ConfigurationError, <<>>, Unchecked, <<>>)
    ELSE IF ~StartsWithAt(r.content_type, 1, <<"application/json">>)
    THEN BodyStage(UnsupportedMedia, <<>>, Unchecked, <<>>)
    ELSE IF r.raw.kind = "invalid"
    THEN BodyStage(InvalidJson, <<>>, Unchecked, <<>>)
    ELSE IF r.raw.kind \in NonObjectKinds
    THEN BodyStage(UnexpectedError, <<>>, Unchecked, <<>>)
    ELSE LET request_body == IF r.raw.kind = "empty" THEN <<>> ELSE r.raw.doc
             v == validate_request_body(request_body, ss)
         IN  IF ~v.errors.none
             THEN BodyStage(ValidationFailed, request_body, v, <<>>)
             ELSE BodyStage(NoResp, request_body, v, as_body_params(v.validated.v))

\* lines 434-522: body_params = None, and the body stage when the prompt
\* declares a body schema
PipelineValidate ==
    /\ pc = "h_normal"
    /\ IF found.v.has_schema
       THEN LET stage == validate_body(request, schemas, route_params)
            IN  /\ body' = stage.body
                /\ validated' = stage.checked.validated
                /\ errors' = stage.checked.errors
                /\ body_params' = stage.body_params
                /\ IF stage.response # NoResp
                   THEN RespondLogged(stage.response)
                   ELSE pc' = "h_exec" /\ UNCHANGED <<response, determined, log_failures>>
       ELSE /\ pc' = "h_exec"
            /\ UNCHANGED <<body, validated, errors, body_params,
                           response, determined, log_failures>>
    /\ UNCHANGED <<request, found, dry_run, providerVars, schemas, pieces, route_params,
                   result, concurrentVars, routerVars, unifyVars, composeVars, schemaVars>>

NextPipeline ==
    \/ HandlerRoute \/ HandlerDryRun \/ HandlerPreview \/ PipelineValidate
    \/ HandlerCallsExecutor \/ HandlerResult
    \/ NextProvider

\* the field x of the schema, and the templates that use it
PipelineSchemas ==
    {<<BodyFieldSchema(<<"x">>, "string", r, d)>> : r \in BOOLEAN, d \in {PyNone, PyStrV(<<"s">>)}}
    \cup {<<BodyFieldSchema(<<"x">>, "number", FALSE, PyNone)>>}
PipelineTemplates ==
    {<<TextPiece(<<"a">>)>>,
     <<VarPiece("body", <<"x">>, None)>>,
     <<VarPiece("body", <<"x">>, <<"d">>)>>,
     <<VarPiece("route", <<"x">>, None), VarPiece("", <<"x">>, <<"d">>)>>}

InitPipeline ==
    /\ pc = "h_start"
    /\ request \in [dry_header : {Missing, "1"}, dry_query : {Missing},
                    method : {"POST", "get"}, content_type : ContentTypes, raw : RawBodies]
    /\ \/ /\ found = NoneResult
          /\ pieces = <<>> /\ schemas = <<>> /\ route_params = <<>>
       \/ /\ pieces \in PipelineTemplates
          /\ \E h \in BOOLEAN, a \in {"codex", "unknown"} :
                /\ found = Some([dry |-> "None", has_schema |-> h, agent |-> a,
                                 model |-> None, text |-> Template(pieces)])
                /\ IF h THEN schemas \in PipelineSchemas ELSE schemas = <<>>
          /\ route_params \in Dicts({<<"x">>, <<"y">>}, {<<"r">>})
    /\ body = <<>> /\ validated = NoneResult /\ errors = NoneResult
    /\ body_params = <<>> /\ result = <<>>
    /\ dry_run = FALSE
    /\ response = NoResp
    /\ determined = NoResp
    /\ log_failures = 0
    /\ codex_in_path \in BOOLEAN
    /\ call = [prompt |-> <<>>, model |-> None, dry_run |-> FALSE]
    /\ proc = NoProcess
    /\ pipe = EmptyPipes
    /\ stdout_lines = <<>> /\ stderr_lines = <<>>
    /\ captured_at_kill = NoneResult
    /\ provider_result = NoneResult
    /\ spawned = 0
    /\ IdleConcurrent /\ IdleRouter /\ IdleUnify /\ IdleCompose /\ IdleSchema

SpecPipeline == InitPipeline /\ [][NextPipeline]_vars


-----------------------------------------------------------------------------
(* Claims about the request pipeline                                       *)

Declares == ~found.none /\ found.v.has_schema

\* the request passes every check that precedes the decoding of its body
ReachesBody ==
    /\ upper(request.method) \in {"POST", "PUT", "PATCH"}
    /\ validate_body_schema(schemas, Some(keys(route_params)), request.method) = "none"
    /\ StartsWithAt(request.content_type, 1, <<"application/json">>)

\* the body is a JSON object (or empty) that the schema accepts
ValidBody ==
    /\ ReachesBody
    /\ request.raw.kind \in {"empty", "object"}
    /\ validate_request_body(IF request.raw.kind = "empty" THEN <<>> ELSE request.raw.doc,
                             schemas).errors.none

\* C25: a request for a prompt with a body schema whose body is a JSON
\* document but no object is answered 4xx with a structured error, and no
\* agent process is started
C25_NonObjectBodyIsClientFault ==
    (/\ pc = "h_done" /\ Declares /\ ~dry_run
     /\ ReachesBody /\ request.raw.kind \in NonObjectKinds)
    => /\ response.status \in 400..499
       /\ "error" \in response.keys
       /\ spawned = 0

\* C26: outside dry-run mode a request answered 404, 415, 400, 422, 503 or
\* with a prompt configuration error has started no agent process; and once
\* an agent process was started, a prompt was matched, its provider is
\* installed, the body passed every check of a declared schema, and the
\* process was given the matched prompt's text with the route parameters
\* and the validated body substituted
C26_AgentOnlyAfterEveryStage ==
    /\ (/\ ~dry_run
        /\ \/ response.status \in {404, 415, 400, 422, 503}
           \/ response = ConfigurationError)
       => spawned = 0
    /\ spawned > 0 =>
          /\ ~found.none
          /\ ~dry_run
          /\ found.v.agent = "codex" /\ codex_in_path
          /\ found.v.has_schema =>
                /\ ValidBody
                /\ ~validated.none
                /\ validated = validate_request_body(body, schemas).validated
                /\ body_params = as_body_params(validated.v)
          /\ call.prompt = substitute_variables(found.v.text, route_params, body_params)

\* an agent process runs on a prompt that holds a value of the validated body
C26_Witness ==
    /\ spawned > 0
    /\ Declares
    /\ <<"x">> \in DOMAIN body
    /\ pieces = <<VarPiece("body", <<"x">>, None)>>
    /\ call.prompt = <<"w">>

\* C27: a request whose agent process was started is answered as a timeout
\* exactly when the wait on the process was exceeded and the process was
\* killed; a process that ended by itself is answered as success when its
\* exit status is 0 and as execution failure otherwise
C27_TimeoutIffWaitExceeded ==
    (pc = "h_done" /\ spawned > 0) =>
        /\ determined = RequestTimeout <=> proc.state = "killed"
        /\ proc.state = "exited" =>
              determined.status = IF proc.returncode = 0 THEN 200 ELSE 500

\* the body_params a run of the same request outside dry-run mode hands to
\* the executor
NormalBodyParams ==
    IF found.v.has_schema
    THEN validate_body(request, schemas, route_params).body_params
    ELSE <<>>

\* C28: for a request that would reach the agent outside dry-run mode, the
\* command a dry run reports is the command built from the prompt with the
\* route parameters and the validated body substituted
C28_PreviewIsRealCommand ==
    (/\ pc = "h_done" /\ dry_run /\ response.status = 200
     /\ codex_in_path
     /\ found.v.has_schema => ValidBody)
    => response = Preview(command_string(cmd(
                     substitute_variables(found.v.text, route_params, NormalBodyParams),
                     found.v.model)))

\* the schema's field x is optional and has no default, and the body omits it
OmittedOptional ==
    /\ Declares
    /\ schemas = <<BodyFieldSchema(<<"x">>, schemas[1].type, FALSE, PyNone)>>
    /\ request.raw.kind \in {"empty", "object"}
    /\ <<"x">> \notin DOMAIN body

\* C29: when the executor is called for a request that omits an optional
\* field x without schema default, body_params holds no x, and a template
\* that is one placeholder ${body.x} or ${body.x:literal} has become the
\* empty string or the literal
C29_OmittedOptionalStaysAbsent ==
    (/\ pc = "p_call" /\ ~dry_run /\ OmittedOptional
     /\ Len(pieces) = 1 /\ pieces[1].kind = "var" /\ pieces[1].ns = "body")
    => /\ <<"x">> \notin DOMAIN body_params
       /\ call.prompt = IF pieces[1].default = None THEN <<>> ELSE pieces[1].default

=============================================================================
